---- MODULE Spec2Model ----
(***************************************************************************)
(* Model of the Quran-db verse/word population pipelines                   *)
(*   src/scribts/download.py     (pipeline "v1")                           *)
(*   src/scribts/download_v2.py  (pipeline "v2")                           *)
(* Chapter list, fetch outcomes and verse payloads come from the remote    *)
(* API and are inputs of the actions.  The store is modelled by the        *)
(* columns that carry identity: Ayats(ayat_id, sura_id, ayat_number) and   *)
(* Words(word_id, ayat_id, word_number).                                   *)
(***************************************************************************)
EXTENDS Integers, Sequences, FiniteSets, TLC

VARIABLES
    pipeline,       \* "v1" = download.py, "v2" = download_v2.py
    pc,             \* position of the main thread in the script
    suras,          \* chapter list as returned by the chapter endpoint
    all_ayah_keys,  \* enumerated work items
    max_workers,    \* pool size
    submit_pos,     \* index of the next key the pool block submits
    pending,        \* submitted futures whose task has not finished
    returned,       \* finished futures holding (key, payload), not yet consumed
    raised,         \* finished futures holding an exception, not yet consumed
    results,        \* dict key -> payload
    errors,         \* list of (key, str(e))
    completed,      \* completion counter of the consumer loop
    retry_pos,      \* index of the next entry of errors the retry pass visits
    load_pos,       \* index of the next key the insert loop visits
    ayat_id,        \* verse-ID counter
    word_id,        \* word-ID counter
    ayats,          \* Ayats rows inserted on the connection
    words,          \* Words rows inserted on the connection
    committed,      \* TRUE once conn.commit() after the insert loop has run
    printed,        \* lines printed about keys: <<kind, key, cause>>
    fetch_log,      \* per key, the outcome of every call of fetch_ayah / fetch_verse
    refs,           \* rows of Juzs, Hezbs, Pages and Suras on the connection
    disk,           \* committed contents of quran_arabic.db
    tls,            \* threading.local 'session' attribute of each thread
    running,        \* per worker thread, the key whose task it executes
    session_log,    \* uses of HTTP sessions: <<session, thread>>
    script,         \* the enrichment / migration script that runs
    spc,            \* position of that script
    files,          \* database files that exist in the working directory
    db,             \* contents of the target store the scripts work on
    conn,           \* the script's sqlite3 connection to the target store
    source,         \* rows of the script's source database, as its SELECT returns them
    pos,            \* index of the next source row the script visits
    counts,         \* the script's counters
    out             \* messages the script printed

\* State of the store the pipelines write
storeVars == <<refs, disk>>

\* State of the worker threads of the pool
workerVars == <<tls, running, session_log>>

\* State of the enrichment and migration scripts
scriptVars == <<script, spc, files, db, conn, source, pos, counts, out>>

vars == <<pipeline, pc, suras, all_ayah_keys, max_workers, submit_pos,
          pending, returned, raised, results, errors, completed, retry_pos, load_pos, ayat_id,
          word_id, ayats, words, committed, printed, fetch_log,
          storeVars, workerVars, scriptVars>>

----------------------------------------------------------------------------
(* Bounds of the model *)

\* number of chapters the endpoint serves (114 in production)
NumSuras == 2
\* largest total number of verses over all chapters
MaxKeys == 3
\* largest number of words in one verse payload
MaxWords == 2

\* number of Juzs rows the schema step inserts (30 in production); the
\* Hezbs rows are twice as many
NumJuzs == 2
\* number of Pages rows the schema step inserts (604 in production)
NumPages == 2

\* number of worker threads of the pool in the specification of the
\* worker threads (QURAN_MAX_WORKERS)
NumThreads == 2

\* Python None
None == -1

Pipelines == {"v1", "v2"}

----------------------------------------------------------------------------
(* Inputs served by the remote API and the environment *)

RECURSIVE SumCounts(_, _)
SumCounts(c, n) ==
    IF n = 0 THEN 0 ELSE c[n] + SumCounts(c, n - 1)

\* Chapter lists the chapter endpoint may return: every chapter 1..NumSuras
\* once, in ascending or in descending id order, each with a positive verse
\* count.
ChapterOrders ==
    { [i \in 1..NumSuras |-> i], [i \in 1..NumSuras |-> NumSuras + 1 - i] }

ChapterLists ==
    { [i \in 1..NumSuras |-> [id |-> p[i], verses_count |-> c[p[i]]]] :
        p \in ChapterOrders,
        c \in { d \in [1..NumSuras -> 1..MaxKeys] :
                  SumCounts(d, NumSuras) <= MaxKeys } }

\* The 'verse' object the verse endpoint may return for a key, reduced to
\* the fields the pipelines read: chapter_id, verse_number and the
\* 'position' of each word.  Served are the verse asked for, with no word
\* or with MaxWords words numbered 1..MaxWords, and a garbled object that
\* names another verse and numbers its words MaxWords+1 down to 2.
WellFormed(key) ==
    { [chapter_id |-> key[1], verse_number |-> key[2],
       words |-> [i \in 1..k |-> i]] : k \in {0, MaxWords} }

Garbled(key) ==
    { [chapter_id |-> (key[1] % NumSuras) + 1, verse_number |-> key[2] + 1,
       words |-> [i \in 1..MaxWords |-> MaxWords + 2 - i]] }

Responses(key) == WellFormed(key) \cup Garbled(key)

\* str(e) of the exception a failed fetch raises, one message for the pool
\* pass and another for the retry pass
PoolCauses == {"HTTPError"}
RetryCauses == {"Timeout"}

\* Values of QURAN_MAX_WORKERS ("" stands for unset or empty, both falsy)
EnvValues == {"", "abc", "0", "16"}

\* os.cpu_count(): None or a number
CpuCounts == {None, 4}

----------------------------------------------------------------------------
(* Pure helpers *)

\* Python 'x or y' on an optional integer
Or(x, y) == IF x = None \/ x = 0 THEN y ELSE x

isdigit(s) == s \in {"0", "16"}

int(s) == CASE s = "0" -> 0 [] s = "16" -> 16

Min(a, b) == IF a <= b THEN a ELSE b

\* range(1, n + 1) of verse numbers of one chapter, as keys
VerseKeys(sid, n) == [a \in 1..n |-> <<sid, a>>]

\* next(s for s in suras if s['id'] == sura_id)
HasSura(list, sura_id) == \E i \in 1..Len(list) : list[i].id = sura_id

FirstSura(list, sura_id) ==
    list[CHOOSE i \in 1..Len(list) :
            /\ list[i].id = sura_id
            /\ \A j \in 1..(i - 1) : list[j].id # sura_id]

\* download.py: for sura_id in range(1, 115): ... for ayat_number in range(...)
RECURSIVE KeysV1From(_, _)
KeysV1From(list, sura_id) ==
    IF sura_id > NumSuras THEN <<>>
    ELSE VerseKeys(sura_id, FirstSura(list, sura_id).verses_count)
           \o KeysV1From(list, sura_id + 1)

\* download_v2.py: for sura in suras: ... for anum in range(...)
RECURSIVE KeysV2From(_, _)
KeysV2From(list, i) ==
    IF i > Len(list) THEN <<>>
    ELSE VerseKeys(list[i].id, list[i].verses_count) \o KeysV2From(list, i + 1)

\* The work-item list each pipeline builds
AllAyahKeys(pl, list) ==
    IF pl = "v1" THEN KeysV1From(list, 1) ELSE KeysV2From(list, 1)

\* The order in which the insert loop of each pipeline visits the keys
InsertOrder(pl, list) ==
    IF pl = "v1" THEN KeysV1From(list, 1) ELSE KeysV2From(list, 1)

\* fetch_ayah (v1) on a successful response: (key, payload)
fetch_ayah(key, resp) == <<key, [words |-> resp.words]>>

\* fetch_verse (v2) on a successful response: (key, payload)
fetch_verse(key, resp) ==
    <<key, [sura_id     |-> resp.chapter_id,
            ayat_number |-> Or(resp.verse_number, key[2]),
            words       |-> resp.words]>>

Fetch(pl, key, resp) ==
    IF pl = "v1" THEN fetch_ayah(key, resp) ELSE fetch_verse(key, resp)

\* results[k] = payload
DictSet(d, k, v) == (k :> v) @@ d

SeqToSet(s) == { s[i] : i \in 1..Len(s) }

EmptyDict == <<>>

\* The Ayats row the insert loop builds for a key and its payload:
\* download.py stores the loop's sura_id / ayat_number, download_v2.py
\* stores payload['sura_id'] / payload['ayat_number'].
AyatRow(pl, aid, key, payload) ==
    IF pl = "v1"
    THEN [ayat_id |-> aid, sura_id |-> key[1], ayat_number |-> key[2]]
    ELSE [ayat_id |-> aid, sura_id |-> payload.sura_id,
          ayat_number |-> payload.ayat_number]

\* NOT NULL columns of Ayats: an INSERT with None raises IntegrityError
AyatRowAccepted(row) == row.sura_id # None /\ row.ayat_number # None

\* Number of leading words whose INSERT succeeds (word_number is NOT NULL)
RECURSIVE InsertableWords(_, _)
InsertableWords(ws, i) ==
    IF i > Len(ws) \/ ws[i] = None THEN i - 1 ELSE InsertableWords(ws, i + 1)

\* The Words rows of one verse: word_id counts up from wid, word_number is
\* the word's 'position'.
WordRows(wid, aid, ws, n) ==
    [i \in 1..n |-> [word_id |-> wid + i - 1, ayat_id |-> aid,
                     word_number |-> ws[i]]]

----------------------------------------------------------------------------
(* The store *)

\* Rows the static-table loops insert: Juzs (juz_id, juz_number), Hezbs
\* (hezb_id, hezb_number, juz_id) and Pages (page_id, page_number).
StaticRows ==
    { [table |-> "Juzs", id |-> j, number |-> j, parent |-> None] :
        j \in 1..NumJuzs }
    \cup { [table |-> "Hezbs", id |-> h, number |-> h,
            parent |-> ((h - 1) \div 2) + 1] : h \in 1..(2 * NumJuzs) }
    \cup { [table |-> "Pages", id |-> n, number |-> n, parent |-> None] :
            n \in 1..NumPages }

\* Rows the Suras loop inserts for a chapter list (sura_id, ayat_count)
SuraRows(list) ==
    { [table |-> "Suras", id |-> list[i].id, number |-> list[i].verses_count,
       parent |-> None] : i \in 1..Len(list) }

\* A row that INSERT OR IGNORE leaves out: its primary key is taken, or the
\* UNIQUE number of a Juzs, Hezbs or Pages row is.
Conflicts(rows, r) ==
    \E x \in rows :
        /\ x.table = r.table
        /\ x.id = r.id \/ (r.table # "Suras" /\ x.number = r.number)

\* INSERT OR IGNORE of rows that do not conflict with each other
InsertOrIgnore(rows, new) == rows \cup { r \in new : ~Conflicts(rows, r) }

\* Contents of a database file: Ayats rows, Words rows and reference rows
Store(a, w, r) == [ayats |-> a, words |-> w, refs |-> r]

\* The file sqlite3.connect creates
EmptyStore == Store(<<>>, <<>>, {})

\* The file an earlier complete run left: chapters of one verse of one word
PriorStores ==
    { Store([i \in 1..NumSuras |-> [ayat_id |-> i, sura_id |-> i, ayat_number |-> 1]],
            [i \in 1..NumSuras |-> [word_id |-> i, ayat_id |-> i, word_number |-> 1]],
            StaticRows \cup SuraRows([i \in 1..NumSuras |->
                                        [id |-> i, verses_count |-> 1]])) }

\* INTEGER PRIMARY KEY of Ayats: an INSERT with a taken ayat_id raises
\* IntegrityError
AyatIdTaken(rows, aid) == \E i \in 1..Len(rows) : rows[i].ayat_id = aid

\* Number of the n word_ids from wid on that can be inserted before one is
\* taken (INTEGER PRIMARY KEY of Words)
FreeWordIds(rows, wid, n) ==
    LET taken == { j \in 1..n :
                     \E i \in 1..Len(rows) : rows[i].word_id = wid + j - 1 }
    IN IF taken = {} THEN n
       ELSE (CHOOSE j \in taken : \A l \in taken : j <= l) - 1

----------------------------------------------------------------------------
(* State machine *)

\* No worker thread has started
WorkersIdle ==
    /\ tls = <<>>
    /\ running = <<>>
    /\ session_log = {}

\* No enrichment or migration script runs
ScriptsIdle ==
    /\ script = "none"
    /\ spc = "idle"
    /\ files = {}
    /\ db = <<>>
    /\ conn = <<>>
    /\ source = <<>>
    /\ pos = 1
    /\ counts = <<>>
    /\ out = <<>>

\* Start of a pipeline on the database file 'store'
InitOn(store) ==
    /\ pipeline \in Pipelines
    /\ pc = "schema"
    /\ suras = <<>>
    /\ all_ayah_keys = <<>>
    /\ max_workers = 0
    /\ pending = {}
    /\ returned = EmptyDict
    /\ raised = EmptyDict
    /\ results = EmptyDict
    /\ errors = <<>>
    /\ completed = 0
    /\ submit_pos = 1
    /\ retry_pos = 1
    /\ load_pos = 1
    /\ ayat_id = 1
    /\ word_id = 1
    /\ ayats = store.ayats
    /\ words = store.words
    /\ refs = store.refs
    /\ disk = store
    /\ committed = FALSE
    /\ printed = <<>>
    /\ fetch_log = EmptyDict
    /\ WorkersIdle
    /\ ScriptsIdle

\* A run in a directory without quran_arabic.db
Init == InitOn(EmptyStore)

\* A run on the file an earlier run left
InitRerun == \E store \in PriorStores : InitOn(store)

\* What table creation and the static-table loops make of the tables the
\* connection sees: CREATE TABLE IF NOT EXISTS and INSERT OR IGNORE in
\* both pipelines; download_v2.py then drops Words and Ayats and creates
\* them anew (recreate_ayats_words).
SchemaInitView(pl, view) ==
    Store(IF pl = "v1" THEN view.ayats ELSE <<>>,
          IF pl = "v1" THEN view.words ELSE <<>>,
          InsertOrIgnore(view.refs, StaticRows))

\* Schema initialization.  download.py leaves the static rows uncommitted;
\* download_v2.py commits after the static rows and again in
\* recreate_ayats_words.
SchemaInit ==
    /\ pc = "schema"
    /\ LET view == SchemaInitView(pipeline, Store(ayats, words, refs)) IN
         /\ ayats' = view.ayats
         /\ words' = view.words
         /\ refs' = view.refs
         /\ disk' = IF pipeline = "v1" THEN disk ELSE view
    /\ pc' = "chapters"
    /\ UNCHANGED <<submit_pos, pipeline, suras, all_ayah_keys, max_workers, pending,
                   returned, raised, results, errors, completed, retry_pos,
                   load_pos, ayat_id, word_id, committed, printed, fetch_log>>
    /\ UNCHANGED <<workerVars, scriptVars>>

\* The chapter request: the list is stored and its Suras rows are
\* inserted (download_v2.py commits them), or the request raises and the
\* script ends.
FetchChapters ==
    /\ pc = "chapters"
    /\ \/ \E list \in ChapterLists :
            /\ suras' = list
            /\ refs' = InsertOrIgnore(refs, SuraRows(list))
            /\ disk' = IF pipeline = "v1" THEN disk
                       ELSE Store(ayats, words, refs')
            /\ pc' = "enumerate"
       \/ /\ pc' = "crashed"
          /\ UNCHANGED <<suras, refs, disk>>
    /\ UNCHANGED <<submit_pos, pipeline, all_ayah_keys, max_workers, pending, returned,
                   raised, results, errors, completed, retry_pos, load_pos,
                   ayat_id, word_id, ayats, words, committed, printed, fetch_log>>
    /\ UNCHANGED <<workerVars, scriptVars>>

\* Build the work-item list, then read QURAN_MAX_WORKERS.
Enumerate ==
    /\ pc = "enumerate"
    /\ IF pipeline = "v1" /\ \E id \in 1..NumSuras : ~HasSura(suras, id)
       THEN /\ pc' = "crashed"      \* StopIteration from next(...)
            /\ UNCHANGED <<all_ayah_keys, max_workers>>
       ELSE /\ all_ayah_keys' = AllAyahKeys(pipeline, suras)
            /\ \E env \in EnvValues, cpu \in CpuCounts :
                 max_workers' =
                    IF env # "" /\ isdigit(env) THEN int(env)
                    ELSE Min(32, Or(cpu, 4) * 4)
            /\ pc' = "pool"
    /\ UNCHANGED <<submit_pos, pipeline, suras, pending, returned, raised, results,
                   errors, completed, retry_pos, load_pos, ayat_id, word_id,
                   ayats, words, committed, printed, fetch_log>>
    /\ UNCHANGED <<storeVars, workerVars, scriptVars>>

\* ThreadPoolExecutor(max_workers=...): the with-block is entered.
\* max_workers <= 0 raises ValueError.  No thread of the pool exists yet.
ThreadPoolExecutor ==
    /\ pc = "pool"
    /\ IF max_workers <= 0
       THEN /\ pc' = "crashed"
            /\ UNCHANGED fetch_log
       ELSE /\ fetch_log' = [k \in SeqToSet(all_ayah_keys) |-> <<>>]
            /\ pc' = IF all_ayah_keys = <<>> THEN "fetching" ELSE "submitting"
    /\ UNCHANGED <<pipeline, suras, all_ayah_keys, max_workers, submit_pos,
                   pending, returned, raised, results, errors, completed,
                   retry_pos, load_pos, ayat_id, word_id, ayats, words,
                   committed, printed>>
    /\ UNCHANGED <<storeVars, workerVars, scriptVars>>

\* One exe.submit(...) of the dict comprehension that builds future_map:
\* the keys are submitted one by one in the order of all_ayah_keys, and
\* the tasks submitted so far run meanwhile.  The consumer loop starts
\* when the last key is submitted.
Submit ==
    /\ pc = "submitting"
    /\ submit_pos <= Len(all_ayah_keys)
    /\ pending' = pending \cup {all_ayah_keys[submit_pos]}
    /\ submit_pos' = submit_pos + 1
    /\ pc' = IF submit_pos = Len(all_ayah_keys) THEN "fetching"
             ELSE "submitting"
    /\ UNCHANGED <<pipeline, suras, all_ayah_keys, max_workers, returned,
                   raised, results, errors, completed, retry_pos, load_pos,
                   ayat_id, word_id, ayats, words, committed, printed,
                   fetch_log>>
    /\ UNCHANGED <<storeVars, workerVars, scriptVars>>

\* The pool block has submitted tasks: the threads of the pool run them
PoolRunning == pc \in {"submitting", "fetching"}

\* Entries of fetch_log
Returned(payload) == [ok |-> TRUE, value |-> payload]
Raised(e) == [ok |-> FALSE, value |-> e]

\* A worker finishes the task of key k: the fetch returns (key, payload).
TaskReturn(k) ==
    /\ PoolRunning
    /\ k \in pending
    /\ \E resp \in Responses(k) :
         /\ returned' = DictSet(returned, k, Fetch(pipeline, k, resp))
         /\ fetch_log' = [fetch_log EXCEPT
                            ![k] = Append(@, Returned(Fetch(pipeline, k, resp)[2]))]
    /\ pending' = pending \ {k}
    /\ UNCHANGED <<submit_pos, pipeline, pc, suras, all_ayah_keys, max_workers, raised,
                   results, errors, completed, retry_pos, load_pos, ayat_id,
                   word_id, ayats, words, committed, printed>>
    /\ UNCHANGED <<storeVars, workerVars, scriptVars>>

\* A worker finishes the task of key k: the fetch raises.
TaskRaise(k) ==
    /\ PoolRunning
    /\ k \in pending
    /\ \E e \in PoolCauses :
         /\ raised' = DictSet(raised, k, e)
         /\ fetch_log' = [fetch_log EXCEPT ![k] = Append(@, Raised(e))]
    /\ pending' = pending \ {k}
    /\ UNCHANGED <<submit_pos, pipeline, pc, suras, all_ayah_keys, max_workers, returned,
                   results, errors, completed, retry_pos, load_pos, ayat_id,
                   word_id, ayats, words, committed, printed>>
    /\ UNCHANGED <<storeVars, workerVars, scriptVars>>

DictDel(d, k) == [x \in DOMAIN d \ {k} |-> d[x]]

\* One iteration of 'for fut in as_completed(...)' on a future that returned.
CollectResult(k) ==
    /\ pc = "fetching"
    /\ k \in DOMAIN returned
    /\ results' = DictSet(results, returned[k][1], returned[k][2])
    /\ returned' = DictDel(returned, k)
    /\ completed' = completed + 1
    /\ UNCHANGED <<submit_pos, pipeline, pc, suras, all_ayah_keys, max_workers, pending,
                   raised, errors, retry_pos, load_pos, ayat_id, word_id,
                   ayats, words, committed, printed, fetch_log>>
    /\ UNCHANGED <<storeVars, workerVars, scriptVars>>

\* CollectError that swallows the exception without recording the key
CollectErrorDropped(k) ==
    /\ pc = "fetching"
    /\ k \in DOMAIN raised
    /\ raised' = DictDel(raised, k)
    /\ completed' = completed + 1
    /\ UNCHANGED <<submit_pos, pipeline, pc, suras, all_ayah_keys, max_workers, pending,
                   returned, results, errors, retry_pos, load_pos, ayat_id,
                   word_id, ayats, words, committed, printed, fetch_log>>
    /\ UNCHANGED <<storeVars, workerVars, scriptVars>>

\* One iteration of 'for fut in as_completed(...)' on a future that raised.
CollectError(k) ==
    /\ pc = "fetching"
    /\ k \in DOMAIN raised
    /\ errors' = Append(errors, <<k, raised[k]>>)
    /\ raised' = DictDel(raised, k)
    /\ completed' = completed + 1
    /\ UNCHANGED <<submit_pos, pipeline, pc, suras, all_ayah_keys, max_workers, pending,
                   returned, results, retry_pos, load_pos, ayat_id, word_id,
                   ayats, words, committed, printed, fetch_log>>
    /\ UNCHANGED <<storeVars, workerVars, scriptVars>>

\* PoolExit that does not wait for the tasks still running
PoolExitEarly ==
    /\ pc = "fetching"
    /\ DOMAIN returned = {}
    /\ DOMAIN raised = {}
    /\ pc' = IF errors # <<>> THEN "retry" ELSE "load"
    /\ UNCHANGED <<submit_pos, pipeline, suras, all_ayah_keys, max_workers, pending,
                   returned, raised, results, errors, completed, retry_pos,
                   load_pos, ayat_id, word_id, ayats, words, committed,
                   printed, fetch_log>>
    /\ UNCHANGED <<storeVars, workerVars, scriptVars>>

\* PoolExit without the retry pass
PoolExitNoRetry ==
    /\ pc = "fetching"
    /\ pending = {}
    /\ DOMAIN returned = {}
    /\ DOMAIN raised = {}
    /\ pc' = "load"
    /\ UNCHANGED <<submit_pos, pipeline, suras, all_ayah_keys, max_workers, pending,
                   returned, raised, results, errors, completed, retry_pos,
                   load_pos, ayat_id, word_id, ayats, words, committed,
                   printed, fetch_log>>
    /\ UNCHANGED <<storeVars, workerVars, scriptVars>>

\* as_completed is exhausted and the with-block ends; 'if errors:' decides
\* whether the retry pass runs.
PoolExit ==
    /\ pc = "fetching"
    /\ pending = {}
    /\ DOMAIN returned = {}
    /\ DOMAIN raised = {}
    /\ pc' = IF errors # <<>> THEN "retry" ELSE "load"
    /\ UNCHANGED <<submit_pos, pipeline, suras, all_ayah_keys, max_workers, pending,
                   returned, raised, results, errors, completed, retry_pos,
                   load_pos, ayat_id, word_id, ayats, words, committed,
                   printed, fetch_log>>
    /\ UNCHANGED <<storeVars, workerVars, scriptVars>>

\* RetryStep that reports the cause recorded by the pool pass (_err)
RetryStepFirstCause ==
    /\ pc = "retry"
    /\ retry_pos <= Len(errors)
    /\ LET key == errors[retry_pos][1] IN
         \/ \E resp \in Responses(key) :
              /\ results' = DictSet(results, Fetch(pipeline, key, resp)[1],
                                    Fetch(pipeline, key, resp)[2])
              /\ fetch_log' = [fetch_log EXCEPT
                    ![key] = Append(@, Returned(Fetch(pipeline, key, resp)[2]))]
              /\ UNCHANGED printed
         \/ \E e \in RetryCauses :
              /\ printed' = Append(printed,
                                   <<"final failure", key, errors[retry_pos][2]>>)
              /\ fetch_log' = [fetch_log EXCEPT ![key] = Append(@, Raised(e))]
              /\ UNCHANGED results
    /\ retry_pos' = retry_pos + 1
    /\ pc' = IF retry_pos = Len(errors) THEN "load" ELSE "retry"
    /\ UNCHANGED <<submit_pos, pipeline, suras, all_ayah_keys, max_workers, pending,
                   returned, raised, errors, completed, load_pos, ayat_id,
                   word_id, ayats, words, committed>>
    /\ UNCHANGED <<storeVars, workerVars, scriptVars>>

\* One iteration of the serial retry loop over errors.
RetryStep ==
    /\ pc = "retry"
    /\ retry_pos <= Len(errors)
    /\ LET key == errors[retry_pos][1] IN
         \/ \E resp \in Responses(key) :
              /\ results' = DictSet(results, Fetch(pipeline, key, resp)[1],
                                    Fetch(pipeline, key, resp)[2])
              /\ fetch_log' = [fetch_log EXCEPT
                    ![key] = Append(@, Returned(Fetch(pipeline, key, resp)[2]))]
              /\ UNCHANGED printed
         \/ \E e \in RetryCauses :
              /\ printed' = Append(printed, <<"final failure", key, e>>)
              /\ fetch_log' = [fetch_log EXCEPT ![key] = Append(@, Raised(e))]
              /\ UNCHANGED results
    /\ retry_pos' = retry_pos + 1
    /\ pc' = IF retry_pos = Len(errors) THEN "load" ELSE "retry"
    /\ UNCHANGED <<submit_pos, pipeline, suras, all_ayah_keys, max_workers, pending,
                   returned, raised, errors, completed, load_pos, ayat_id,
                   word_id, ayats, words, committed>>
    /\ UNCHANGED <<storeVars, workerVars, scriptVars>>

\* The key the insert loop is at
LoadKey == InsertOrder(pipeline, suras)[load_pos]

\* LoadSkip that does not report the key
LoadSkipSilent ==
    /\ pc = "load"
    /\ load_pos <= Len(InsertOrder(pipeline, suras))
    /\ LoadKey \notin DOMAIN results
    /\ load_pos' = load_pos + 1
    /\ UNCHANGED <<submit_pos, pipeline, pc, suras, all_ayah_keys, max_workers, pending,
                   returned, raised, results, errors, completed, retry_pos,
                   ayat_id, word_id, ayats, words, committed, printed,
                   fetch_log>>
    /\ UNCHANGED <<storeVars, workerVars, scriptVars>>

\* LoadSkip with the verse-ID counter advanced past the missing key
LoadSkipGap ==
    /\ pc = "load"
    /\ load_pos <= Len(InsertOrder(pipeline, suras))
    /\ LoadKey \notin DOMAIN results
    /\ printed' = Append(printed, <<"skip", LoadKey, "">>)
    /\ load_pos' = load_pos + 1
    /\ ayat_id' = ayat_id + 1
    /\ UNCHANGED <<submit_pos, pipeline, pc, suras, all_ayah_keys, max_workers, pending,
                   returned, raised, results, errors, completed, retry_pos,
                   word_id, ayats, words, committed, fetch_log>>
    /\ UNCHANGED <<storeVars, workerVars, scriptVars>>

\* One iteration of the insert loop on a key that results lacks.
LoadSkip ==
    /\ pc = "load"
    /\ load_pos <= Len(InsertOrder(pipeline, suras))
    /\ LoadKey \notin DOMAIN results
    /\ printed' = Append(printed, <<"skip", LoadKey, "">>)
    /\ load_pos' = load_pos + 1
    /\ UNCHANGED <<submit_pos, pipeline, pc, suras, all_ayah_keys, max_workers, pending,
                   returned, raised, results, errors, completed, retry_pos,
                   ayat_id, word_id, ayats, words, committed, fetch_log>>
    /\ UNCHANGED <<storeVars, workerVars, scriptVars>>

\* One iteration of the insert loop on a key that results holds: the Ayats
\* row, then one Words row per word; an IntegrityError ends the script.
LoadInsert ==
    /\ pc = "load"
    /\ load_pos <= Len(InsertOrder(pipeline, suras))
    /\ LoadKey \in DOMAIN results
    /\ LET payload == results[LoadKey]
           row     == AyatRow(pipeline, ayat_id, LoadKey, payload)
           n       == FreeWordIds(words, word_id,
                                  InsertableWords(payload.words, 1))
       IN IF ~AyatRowAccepted(row) \/ AyatIdTaken(ayats, ayat_id)
          THEN /\ pc' = "crashed"
               /\ UNCHANGED <<submit_pos, ayats, words, ayat_id, word_id, load_pos>>
          ELSE /\ ayats' = Append(ayats, row)
               /\ words' = words \o WordRows(word_id, ayat_id, payload.words, n)
               /\ word_id' = word_id + n
               /\ IF n < Len(payload.words)
                  THEN /\ pc' = "crashed"
                       /\ UNCHANGED <<submit_pos, ayat_id, load_pos>>
                  ELSE /\ ayat_id' = ayat_id + 1
                       /\ load_pos' = load_pos + 1
                       /\ UNCHANGED pc
    /\ UNCHANGED <<submit_pos, pipeline, suras, all_ayah_keys, max_workers, pending,
                   returned, raised, results, errors, completed, retry_pos,
                   committed, printed, fetch_log>>
    /\ UNCHANGED <<storeVars, workerVars, scriptVars>>

\* conn.commit() after the insert loop
Commit ==
    /\ pc = "load"
    /\ load_pos > Len(InsertOrder(pipeline, suras))
    /\ committed' = TRUE
    /\ disk' = Store(ayats, words, refs)
    /\ refs' = refs
    /\ pc' = "done"
    /\ UNCHANGED <<submit_pos, pipeline, suras, all_ayah_keys, max_workers, pending,
                   returned, raised, results, errors, completed, retry_pos,
                   load_pos, ayat_id, word_id, ayats, words, printed, fetch_log>>
    /\ UNCHANGED <<workerVars, scriptVars>>

Next ==
    \/ SchemaInit
    \/ FetchChapters
    \/ Enumerate
    \/ ThreadPoolExecutor
    \/ Submit
    \/ \E k \in pending : TaskReturn(k)
    \/ \E k \in pending : TaskRaise(k)
    \/ \E k \in DOMAIN returned : CollectResult(k)
    \/ \E k \in DOMAIN raised : CollectError(k)
    \/ PoolExit
    \/ RetryStep
    \/ LoadSkip
    \/ LoadInsert
    \/ Commit

Spec == Init /\ [][Next]_vars

----------------------------------------------------------------------------
(* The worker threads of the pool *)

\* Worker threads of ThreadPoolExecutor(max_workers = NumThreads)
Threads == 1..NumThreads

\* The session _make_session / make_session returns to thread t
NewSession(t) == [creator |-> t]

\* The 'session' attribute of a thread that has not set it
NoSession == [creator |-> None]

\* A worker thread that executes no task
Idle == <<>>

\* _get_session / get_session called by thread t: the 'session' attribute
\* of the thread-local object, set on the thread's first call
get_session(local, t) ==
    IF local[t] = NoSession THEN NewSession(t) ELSE local[t]

\* get_session with one module-level session instead of a thread-local one
get_session_shared(local, t) ==
    IF \E u \in DOMAIN local : local[u] # NoSession
    THEN local[CHOOSE u \in DOMAIN local : local[u] # NoSession]
    ELSE NewSession(t)

\* The 'verse' object served to a worker: the verse asked for, with
\* MaxWords words (what a payload holds plays no part in the handling of
\* the futures)
WorkerResponses(key) ==
    { r \in WellFormed(key) : Len(r.words) = MaxWords }

\* The state Enumerate leaves with QURAN_MAX_WORKERS = NumThreads, before
\* any thread of the pool exists (chapter lists in ascending order)
InitWorkers ==
    /\ pipeline \in Pipelines
    /\ pc = "pool"
    /\ suras \in { list \in ChapterLists : list[1].id = 1 }
    /\ all_ayah_keys = AllAyahKeys(pipeline, suras)
    /\ max_workers = NumThreads
    /\ pending = {}
    /\ returned = EmptyDict
    /\ raised = EmptyDict
    /\ results = EmptyDict
    /\ errors = <<>>
    /\ completed = 0
    /\ submit_pos = 1
    /\ retry_pos = 1
    /\ load_pos = 1
    /\ ayat_id = 1
    /\ word_id = 1
    /\ ayats = <<>>
    /\ words = <<>>
    /\ refs = InsertOrIgnore(InsertOrIgnore({}, StaticRows), SuraRows(suras))
    /\ disk = IF pipeline = "v1" THEN EmptyStore ELSE Store(<<>>, <<>>, refs)
    /\ committed = FALSE
    /\ printed = <<>>
    /\ fetch_log = EmptyDict
    /\ tls = [t \in Threads |-> NoSession]
    /\ running = [t \in Threads |-> Idle]
    /\ session_log = {}
    /\ ScriptsIdle

\* WorkerStart with a session shared by all threads
WorkerStartShared(t, k) ==
    /\ PoolRunning
    /\ t < submit_pos          \* a submit starts at most one thread
    /\ running[t] = Idle
    /\ k \in pending
    /\ \A u \in Threads : running[u] # k
    /\ running' = [running EXCEPT ![t] = k]
    /\ tls' = [tls EXCEPT ![t] = get_session_shared(tls, t)]
    /\ session_log' = session_log \cup {<<get_session_shared(tls, t), t, k>>}
    /\ UNCHANGED <<submit_pos, pipeline, pc, suras, all_ayah_keys, max_workers, pending,
                   returned, raised, results, errors, completed, retry_pos,
                   load_pos, ayat_id, word_id, ayats, words, committed,
                   printed, fetch_log>>
    /\ UNCHANGED <<storeVars, scriptVars>>

\* Worker thread t takes the task of key k off the work queue and calls
\* fetch_ayah / fetch_verse: it gets its session and sends the request.
WorkerStart(t, k) ==
    /\ PoolRunning
    /\ t < submit_pos          \* a submit starts at most one thread
    /\ running[t] = Idle
    /\ k \in pending
    /\ \A u \in Threads : running[u] # k
    /\ running' = [running EXCEPT ![t] = k]
    /\ tls' = [tls EXCEPT ![t] = get_session(tls, t)]
    /\ session_log' = session_log \cup {<<get_session(tls, t), t, k>>}
    /\ UNCHANGED <<submit_pos, pipeline, pc, suras, all_ayah_keys, max_workers, pending,
                   returned, raised, results, errors, completed, retry_pos,
                   load_pos, ayat_id, word_id, ayats, words, committed,
                   printed, fetch_log>>
    /\ UNCHANGED <<storeVars, scriptVars>>

\* The task of worker thread t returns (key, payload): the future is done.
WorkerReturn(t) ==
    /\ PoolRunning
    /\ running[t] # Idle
    /\ LET k == running[t] IN
         /\ \E resp \in WorkerResponses(k) :
              /\ returned' = DictSet(returned, k, Fetch(pipeline, k, resp))
              /\ fetch_log' = [fetch_log EXCEPT
                     ![k] = Append(@, Returned(Fetch(pipeline, k, resp)[2]))]
         /\ pending' = pending \ {k}
    /\ running' = [running EXCEPT ![t] = Idle]
    /\ UNCHANGED <<submit_pos, pipeline, pc, suras, all_ayah_keys, max_workers, raised,
                   results, errors, completed, retry_pos, load_pos, ayat_id,
                   word_id, ayats, words, committed, printed>>
    /\ UNCHANGED <<tls, session_log, storeVars, scriptVars>>

\* The task of worker thread t raises: the future holds the exception.
WorkerRaise(t) ==
    /\ PoolRunning
    /\ running[t] # Idle
    /\ LET k == running[t] IN
         /\ \E e \in PoolCauses :
              /\ raised' = DictSet(raised, k, e)
              /\ fetch_log' = [fetch_log EXCEPT ![k] = Append(@, Raised(e))]
         /\ pending' = pending \ {k}
    /\ running' = [running EXCEPT ![t] = Idle]
    /\ UNCHANGED <<submit_pos, pipeline, pc, suras, all_ayah_keys, max_workers, returned,
                   results, errors, completed, retry_pos, load_pos, ayat_id,
                   word_id, ayats, words, committed, printed>>
    /\ UNCHANGED <<tls, session_log, storeVars, scriptVars>>

\* The pool phase with its worker threads, up to the end of the with-block
NextWorkers ==
    \/ ThreadPoolExecutor
    \/ Submit
    \/ \E t \in Threads : \E k \in pending : WorkerStart(t, k)
    \/ \E t \in Threads : WorkerReturn(t)
    \/ \E t \in Threads : WorkerRaise(t)
    \/ \E k \in DOMAIN returned : CollectResult(k)
    \/ \E k \in DOMAIN raised : CollectError(k)
    \/ PoolExit

SpecWorkers == InitWorkers /\ [][NextWorkers]_vars

----------------------------------------------------------------------------
(* The enrichment and migration scripts: inputs *)

\* number of lines of a page in the lines source (15 in production)
NumLines == 2
\* largest number of rows of the lines source
MaxRows == 2

Scripts ==
    {"import_juzs", "import_lines", "drop_audio_segments",
     "update_pages_for_juz_hezb", "update_suras_page_line"}

TARGET_DB == "quran_arabic.db"

\* SOURCE_DB of import_juzs.py and of import_lines.py
SOURCE_DB(s) ==
    IF s = "import_juzs" THEN "quran-metadata-juz.sqlite"
    ELSE "uthmani-15-lines.db"

\* The files a script tests with os.path.exists, in the order of its tests
RequiredFiles(s) ==
    IF s \in {"import_juzs", "import_lines"} THEN <<SOURCE_DB(s), TARGET_DB>>
    ELSE <<TARGET_DB>>

\* The nine columns of DDL_NEW_AYATS
AyatsColumns ==
    {"ayat_id", "sura_id", "ayat_number", "text_uthmani", "juz_id", "hezb_id",
     "page_id", "sajdah_number", "audio_url"}

\* The columns import_juzs adds to Juzs
JuzsColumns == {"verses_count", "first_ayat_id", "last_ayat_id"}

\* An Ayats row of the v2 schema, and one of a store that still carries
\* the audio_segments column
VerseRow(i) ==
    [ayat_id |-> i, sura_id |-> i, ayat_number |-> 1, text_uthmani |-> "text",
     juz_id |-> 1, hezb_id |-> 1, page_id |-> Min(i, NumPages),
     sajdah_number |-> None, audio_url |-> "url"]

VerseRowWithSegments(i) ==
    [ayat_id |-> i, sura_id |-> i, ayat_number |-> 1, text_uthmani |-> "text",
     juz_id |-> 1, hezb_id |-> 1, page_id |-> Min(i, NumPages),
     sajdah_number |-> None, audio_url |-> "url",
     audio_segments |-> "segments"]

\* The Ayats rows of a store: none, or verse 1 of every chapter
VerseTables(segments) ==
    { <<>>,
      [i \in 1..NumSuras |->
         IF segments THEN VerseRowWithSegments(i) ELSE VerseRow(i)] }

\* The Words rows of a store, reduced to the columns the scripts read: one
\* word for each verse but the last, on line NumLines of the verse's page
WordTable(verses) ==
    [i \in 1..(Len(verses) - 1) |->
       [word_id |-> i, ayat_id |-> verses[i].ayat_id, word_number |-> 1,
        page_number |-> verses[i].page_id, line_number |-> NumLines]]

\* Columns the scripts add to a Juzs, a Hezbs and a Suras row, never
\* written (NULL)
NoJuzInfo ==
    [verses_count |-> None, first_ayat_id |-> None, last_ayat_id |-> None,
     page_number |-> None]

NoHezbInfo == [page_number |-> None]

NoSuraInfo == [page_number |-> None, line_number |-> None]

\* The Lines rows an earlier import left
PriorLines ==
    << [line_id |-> 1, page_id |-> NumPages, line_number |-> NumLines,
        sura_id |-> 1] >>

\* The reference rows a complete pipeline run leaves
ReferenceRows ==
    StaticRows \cup SuraRows([i \in 1..NumSuras |->
                                [id |-> i, verses_count |-> 1]])

\* Ids of the rows of a reference table
Ids(rows, table) == { r.id : r \in { x \in rows : x.table = table } }

\* Contents of quran_arabic.db as the scripts see them, here as a v2 run
\* leaves them: the Ayats and Words rows, the reference rows, the tables
\* outside the pipelines' schema and the Lines rows, the columns of Ayats
\* and the columns the scripts add to Juzs, Hezbs and Suras, and the
\* values of the added columns per row
FreshStore ==
    LET verses == [i \in 1..NumSuras |-> VerseRow(i)]
    IN [ayats |-> verses,
        words |-> WordTable(verses),
        refs |-> ReferenceRows,
        tables |-> {},
        lines |-> <<>>,
        columns |-> [Ayats |-> AyatsColumns, Juzs |-> {}, Hezbs |-> {},
                     Suras |-> {}],
        juzs |-> [j \in Ids(ReferenceRows, "Juzs") |-> NoJuzInfo],
        hezbs |-> [h \in Ids(ReferenceRows, "Hezbs") |-> NoHezbInfo],
        suras |-> [s \in Ids(ReferenceRows, "Suras") |-> NoSuraInfo]]

\* The value of db while quran_arabic.db does not exist
NoStore ==
    [ayats |-> <<>>, words |-> <<>>, refs |-> {}, tables |-> {},
     lines |-> <<>>,
     columns |-> [Ayats |-> {}, Juzs |-> {}, Hezbs |-> {}, Suras |-> {}],
     juzs |-> <<>>, hezbs |-> <<>>, suras |-> <<>>]

\* A store whose Ayats (and Words) rows are those of 'verses'
WithVerses(store, verses) ==
    [store EXCEPT !.ayats = verses, !.words = WordTable(verses)]

\* A store an earlier import_lines ran on
WithLines(store) ==
    [store EXCEPT !.tables = @ \cup {"Lines"}, !.lines = PriorLines]

\* A store an earlier import_juzs ran on
WithJuzInfo(store) ==
    [store EXCEPT !.columns.Juzs = @ \cup JuzsColumns,
                  !.juzs = [j \in DOMAIN @ |->
                              [@[j] EXCEPT !.verses_count = j,
                                           !.first_ayat_id = 1,
                                           !.last_ayat_id = 1]]]

\* A store of the schema that still has Ayats.audio_segments
WithSegments(store) ==
    [store EXCEPT !.columns.Ayats = @ \cup {"audio_segments"},
                  !.ayats = [i \in 1..Len(@) |->
                               VerseRowWithSegments(@[i].ayat_id)]]

\* The target stores a script is started on.  import_juzs: Ayats empty or
\* filled, the Juzs columns absent or written by an earlier import.
\* import_lines: without a Lines table (the store a pipeline leaves) or
\* with the Lines table of an earlier import.  drop_audio_segments: Ayats
\* empty or filled, with or without the audio_segments column.  The two
\* update scripts: Ayats empty or filled, with or without a Lines table.
TargetStores(s) ==
    LET verse_tables == { WithVerses(FreshStore, v) : v \in VerseTables(FALSE) }
    IN CASE s = "import_juzs" ->
              verse_tables \cup { WithJuzInfo(t) : t \in verse_tables }
         [] s = "import_lines" ->
              { FreshStore, WithLines(FreshStore) }
         [] s = "drop_audio_segments" ->
              verse_tables \cup { WithSegments(t) : t \in verse_tables }
         [] s \in {"update_pages_for_juz_hezb", "update_suras_page_line"} ->
              verse_tables \cup { WithLines(t) : t \in verse_tables }

\* Characters of a decimal digit
Digit(n) ==
    CASE n = 0 -> "0" [] n = 1 -> "1" [] n = 2 -> "2" [] n = 3 -> "3"
      [] n = 4 -> "4" [] n = 5 -> "5" [] n = 6 -> "6" [] n = 7 -> "7"
      [] n = 8 -> "8" [] n = 9 -> "9"

Digits == { Digit(n) : n \in 0..9 }

DigitValue(c) == CHOOSE n \in 0..9 : Digit(n) = c

\* The text 'sura:ayah' as its characters
KeyText(sura, ayah) == <<Digit(sura), ":", Digit(ayah)>>

\* first_verse_key / last_verse_key texts of the juz source: verse 1 of the
\* first and of the last chapter, a verse no store holds, and a text
\* without a colon
VerseKeyTexts ==
    { KeyText(1, 1), KeyText(NumSuras, 1), KeyText(1, 9), <<"1", "1">> }

\* Rows of quran-metadata-juz.sqlite in the order of the SELECT (ORDER BY
\* juz_number): one row for each part of a set of parts
JuzRows(parts) ==
    [parts -> [verses_count : {7}, first_verse_key : VerseKeyTexts,
               last_verse_key : VerseKeyTexts]]

RECURSIVE Ascending(_)
Ascending(S) ==
    IF S = {} THEN <<>>
    ELSE LET m == CHOOSE x \in S : \A y \in S : x <= y
         IN <<m>> \o Ascending(S \ {m})

JuzSources ==
    UNION { { [i \in 1..Cardinality(parts) |->
                 [juz_number |-> Ascending(parts)[i],
                  verses_count |-> f[Ascending(parts)[i]].verses_count,
                  first_verse_key |-> f[Ascending(parts)[i]].first_verse_key,
                  last_verse_key |-> f[Ascending(parts)[i]].last_verse_key]] :
              f \in JuzRows(parts) } : parts \in SUBSET (1..NumJuzs) }

\* Rows of uthmani-15-lines.db in the order of the SELECT (ORDER BY
\* page_number, line_number): at most MaxRows rows, a page number and a
\* chapter number beyond the target's among them, a (page, line) pair
\* possibly twice
LineRows ==
    [page_number : 1..(NumPages + 1), line_number : 1..NumLines,
     surah_number : 1..(NumSuras + 1)]

LineBefore(r1, r2) ==
    \/ r1.page_number < r2.page_number
    \/ r1.page_number = r2.page_number /\ r1.line_number <= r2.line_number

LineSources ==
    UNION { { s \in [1..n -> LineRows] :
                \A i \in 1..(n - 1) : LineBefore(s[i], s[i + 1]) } :
            n \in 0..MaxRows }

Sources(s) ==
    CASE s = "import_juzs" -> JuzSources
      [] s = "import_lines" -> LineSources
      [] OTHER -> { <<>> }

\* No connection was made / sqlite3.connect: foreign keys are off on a new
\* connection
NotConnected == [state |-> "none", foreign_keys |-> FALSE]
Connected == [state |-> "open", foreign_keys |-> FALSE]

\* A script is started in a working directory holding some of the files
\* it requires
InitScripts ==
    /\ pipeline = "v2"
    /\ pc = "done"
    /\ suras = <<>>
    /\ all_ayah_keys = <<>>
    /\ max_workers = 0
    /\ pending = {}
    /\ returned = EmptyDict
    /\ raised = EmptyDict
    /\ results = EmptyDict
    /\ errors = <<>>
    /\ completed = 0
    /\ submit_pos = 1
    /\ retry_pos = 1
    /\ load_pos = 1
    /\ ayat_id = 1
    /\ word_id = 1
    /\ ayats = <<>>
    /\ words = <<>>
    /\ refs = {}
    /\ disk = EmptyStore
    /\ committed = FALSE
    /\ printed = <<>>
    /\ fetch_log = EmptyDict
    /\ WorkersIdle
    /\ script \in Scripts
    /\ spc = "start"
    /\ files \in SUBSET SeqToSet(RequiredFiles(script))
    /\ db \in IF TARGET_DB \in files THEN TargetStores(script) ELSE { NoStore }
    /\ source \in IF SOURCE_DB(script) \in files THEN Sources(script)
                  ELSE { <<>> }
    /\ conn = NotConnected
    /\ pos = 1
    /\ counts = <<>>
    /\ out = <<>>

\* The pipelines do not run while a script does
PipelineIdle ==
    UNCHANGED <<submit_pos, pipeline, pc, suras, all_ayah_keys, max_workers, pending,
                returned, raised, results, errors, completed, retry_pos,
                load_pos, ayat_id, word_id, ayats, words, committed, printed,
                fetch_log, storeVars, workerVars>>

\* The first required file that os.path.exists does not find, None if
\* all exist
FirstMissing(s) ==
    LET req == RequiredFiles(s)
        missing == { i \in 1..Len(req) : req[i] \notin files }
    IN IF missing = {} THEN None
       ELSE CHOOSE i \in missing : \A j \in missing : i <= j

\* The "... not found" line of a script for its i-th required file
NotFoundLine(s, i) ==
    IF Len(RequiredFiles(s)) = 1 THEN <<"DB not found", TARGET_DB>>
    ELSE IF i = 1 THEN <<"Source DB not found", SOURCE_DB(s)>>
    ELSE <<"Target DB not found", TARGET_DB>>

\* if not os.path.exists(...): print(...); return
NotFound(s) ==
    /\ spc = "start"
    /\ FirstMissing(s) # None
    /\ out' = Append(out, NotFoundLine(s, FirstMissing(s)))
    /\ spc' = "done"
    /\ UNCHANGED <<script, files, db, conn, source, pos, counts>>
    /\ PipelineIdle

----------------------------------------------------------------------------
(* import_lines.py *)

\* import_lines returns at the first required file that is absent
ImportLinesNotFound ==
    /\ script = "import_lines"
    /\ NotFound(script)

\* page_map.get(page_number) over SELECT page_id, page_number FROM Pages
PageId(rows, page_number) ==
    LET hit == { r \in rows : r.table = "Pages" /\ r.number = page_number }
    IN IF hit = {} THEN None ELSE (CHOOSE r \in hit : TRUE).id

\* valid_suras
ValidSuras(rows) == { r.id : r \in { x \in rows : x.table = "Suras" } }

\* INSERT OR IGNORE of the tuples of to_insert, one after the other: a tuple
\* whose (page_id, line_number) is in Lines is ignored (uq_lines_page_line);
\* line_id is the next rowid
RECURSIVE InsertLines(_, _, _)
InsertLines(lines, to_insert, i) ==
    IF i > Len(to_insert) THEN lines
    ELSE LET t == to_insert[i]
             taken == \E k \in 1..Len(lines) :
                          /\ lines[k].page_id = t.page_id
                          /\ lines[k].line_number = t.line_number
         IN InsertLines(IF taken THEN lines
                        ELSE Append(lines, [line_id |-> Len(lines) + 1,
                                            page_id |-> t.page_id,
                                            line_number |-> t.line_number,
                                            sura_id |-> t.sura_id]),
                        to_insert, i + 1)

\* DELETE FROM Lines and DROP TABLE IF EXISTS Lines with the source file
\* absent
ImportLinesResetUnguarded ==
    /\ script = "import_lines"
    /\ spc = "start"
    /\ TARGET_DB \in files
    /\ IF "Lines" \notin db.tables
       THEN /\ spc' = "crashed"
            /\ conn' = Connected
            /\ db' = db
       ELSE /\ spc' = "load"
            /\ conn' = Connected
            /\ db' = [db EXCEPT !.lines = <<>>]
    /\ UNCHANGED <<script, files, source, pos, counts, out>>
    /\ PipelineIdle

\* Both files exist: connect to the target, DELETE FROM Lines (an
\* OperationalError 'no such table: Lines' on a store without the table),
\* DROP TABLE IF EXISTS Lines, ensure_schema.  DELETE opens a transaction
\* that ensure_schema commits only at its end, and PRAGMA foreign_keys=ON
\* has no effect inside a transaction: the connection keeps foreign keys
\* off.
ImportLinesReset ==
    /\ script = "import_lines"
    /\ spc = "start"
    /\ FirstMissing(script) = None
    /\ IF "Lines" \notin db.tables
       THEN /\ spc' = "crashed"
            /\ conn' = Connected
            /\ db' = db
       ELSE /\ spc' = "load"
            /\ conn' = Connected
            /\ db' = [db EXCEPT !.lines = <<>>]
    /\ UNCHANGED <<script, files, source, pos, counts, out>>
    /\ PipelineIdle

\* load_source_rows, the filter loop, executemany, commit, the totals
ImportLinesLoad ==
    /\ script = "import_lines"
    /\ spc = "load"
    /\ LET rows == source
           valid_suras == ValidSuras(db.refs)
           NoPage(r) == PageId(db.refs, r.page_number) = None
           NoSura(r) == ~NoPage(r) /\ r.surah_number \notin valid_suras
           Kept(r) == ~NoPage(r) /\ ~NoSura(r)
           kept == SelectSeq(rows, Kept)
           to_insert == [i \in 1..Len(kept) |->
                           [page_id |-> PageId(db.refs, kept[i].page_number),
                            line_number |-> kept[i].line_number,
                            sura_id |-> kept[i].surah_number]]
           lines == InsertLines(db.lines, to_insert, 1)
           missing_page == Len(SelectSeq(rows, NoPage))
           missing_sura == Len(SelectSeq(rows, NoSura))
       IN /\ db' = [db EXCEPT !.lines = lines]
          /\ counts' = [missing_page |-> missing_page,
                        missing_sura |-> missing_sura,
                        rowcount |-> Len(lines) - Len(db.lines)]
          /\ out' = out \o << <<"Loaded", Len(rows)>>,
                              <<"Inserted", Len(lines) - Len(db.lines),
                                missing_page, missing_sura>>,
                              <<"Lines total now", Len(lines)>> >>
    /\ pos' = Len(source) + 1
    /\ conn' = [conn EXCEPT !.state = "closed"]
    /\ spc' = "done"
    /\ UNCHANGED <<script, files, source>>
    /\ PipelineIdle

----------------------------------------------------------------------------
(* import_juzs.py *)

\* import_juzs returns at the first required file that is absent
ImportJuzsNotFound ==
    /\ script = "import_juzs"
    /\ NotFound(script)

\* key.split(':')
RECURSIVE split(_, _)
split(key, sep) ==
    IF \A i \in 1..Len(key) : key[i] # sep THEN <<key>>
    ELSE LET i == CHOOSE j \in 1..Len(key) :
                      key[j] = sep /\ \A l \in 1..(j - 1) : key[l] # sep
         IN <<SubSeq(key, 1, i - 1)>> \o split(SubSeq(key, i + 1, Len(key)), sep)

\* int(text) of a text of digits; anything else raises ValueError
IsNumber(text) == Len(text) > 0 /\ \A i \in 1..Len(text) : text[i] \in Digits

RECURSIVE NumberOf(_)
NumberOf(text) ==
    IF Len(text) = 0 THEN 0
    ELSE 10 * NumberOf(SubSeq(text, 1, Len(text) - 1))
         + DigitValue(text[Len(text)])

parse_verse_key(key) ==
    LET parts == split(key, ":")
    IN IF Len(parts) # 2 THEN Raised("ValueError")
       ELSE IF ~IsNumber(parts[1]) \/ ~IsNumber(parts[2])
            THEN Raised("ValueError")
       ELSE Returned(<<NumberOf(parts[1]), NumberOf(parts[2])>>)

\* SELECT ayat_id FROM Ayats WHERE sura_id=? AND ayat_number=? LIMIT 1
map_to_ayat_id(rows, sura_id, ayat_number) ==
    LET hit == { i \in 1..Len(rows) : /\ rows[i].sura_id = sura_id
                                      /\ rows[i].ayat_number = ayat_number }
    IN IF hit = {} THEN Raised("LookupError")
       ELSE Returned(rows[CHOOSE i \in hit : \A j \in hit : i <= j].ayat_id)

\* parse_verse_key and map_to_ayat_id of one key, the first exception
\* ending the try block
ResolveKey(rows, key) ==
    LET parsed == parse_verse_key(key)
    IN IF ~parsed.ok THEN parsed
       ELSE map_to_ayat_id(rows, parsed.value[1], parsed.value[2])

\* Both files exist: connect, ensure_schema (the three Juzs columns are
\* added where absent), open the source, updated = skipped = 0
ImportJuzsOpen ==
    /\ script = "import_juzs"
    /\ spc = "start"
    /\ FirstMissing(script) = None
    /\ conn' = [Connected EXCEPT !.foreign_keys = TRUE]
    /\ db' = [db EXCEPT !.columns.Juzs = @ \cup JuzsColumns]
    /\ counts' = [updated |-> 0, skipped |-> 0]
    /\ pos' = 1
    /\ spc' = "loop"
    /\ UNCHANGED <<script, files, source, out>>
    /\ PipelineIdle

\* The body of the try block for one source row
JuzsRowResult(row) ==
    LET first_parsed == parse_verse_key(row.first_verse_key)
        last_parsed == parse_verse_key(row.last_verse_key)
    IN IF ~first_parsed.ok THEN first_parsed
       ELSE IF ~last_parsed.ok THEN last_parsed
       ELSE LET first_id == map_to_ayat_id(db.ayats, first_parsed.value[1],
                                           first_parsed.value[2])
                last_id == map_to_ayat_id(db.ayats, last_parsed.value[1],
                                          last_parsed.value[2])
            IN IF ~first_id.ok THEN first_id
               ELSE IF ~last_id.ok THEN last_id
               ELSE Returned([verses_count |-> row.verses_count,
                              first_ayat_id |-> first_id.value,
                              last_ayat_id |-> last_id.value])

\* One round of the loop that looks at the first key only
ImportJuzsRowFirstKeyOnly ==
    /\ script = "import_juzs"
    /\ spc = "loop"
    /\ pos <= Len(source)
    /\ LET row == source[pos]
           first_id == ResolveKey(db.ayats, row.first_verse_key)
       IN IF first_id.ok
          THEN /\ db' = [db EXCEPT !.juzs =
                           [j \in DOMAIN @ |->
                              IF j = row.juz_number
                              THEN [@[j] EXCEPT
                                      !.verses_count = row.verses_count,
                                      !.first_ayat_id = first_id.value,
                                      !.last_ayat_id = first_id.value]
                              ELSE @[j]]]
               /\ counts' = [counts EXCEPT !.updated = @ + 1]
               /\ out' = out
          ELSE /\ db' = db
               /\ counts' = [counts EXCEPT !.skipped = @ + 1]
               /\ out' = Append(out, <<"Skip Juz", row.juz_number,
                                       first_id.value>>)
    /\ pos' = pos + 1
    /\ UNCHANGED <<script, spc, files, conn, source>>
    /\ PipelineIdle

\* One round of the loop over the source rows: UPDATE Juzs ... WHERE
\* juz_id = juz_number and updated += 1, or the except branch
ImportJuzsRow ==
    /\ script = "import_juzs"
    /\ spc = "loop"
    /\ pos <= Len(source)
    /\ LET row == source[pos]
           result == JuzsRowResult(row)
       IN IF result.ok
          THEN /\ db' = [db EXCEPT !.juzs =
                           [j \in DOMAIN @ |->
                              IF j = row.juz_number
                              THEN [@[j] EXCEPT
                                      !.verses_count = result.value.verses_count,
                                      !.first_ayat_id = result.value.first_ayat_id,
                                      !.last_ayat_id = result.value.last_ayat_id]
                              ELSE @[j]]]
               /\ counts' = [counts EXCEPT !.updated = @ + 1]
               /\ out' = out
          ELSE /\ db' = db
               /\ counts' = [counts EXCEPT !.skipped = @ + 1]
               /\ out' = Append(out, <<"Skip Juz", row.juz_number,
                                       result.value>>)
    /\ pos' = pos + 1
    /\ UNCHANGED <<script, spc, files, conn, source>>
    /\ PipelineIdle

\* After the loop: commit, the totals, close
ImportJuzsFinish ==
    /\ script = "import_juzs"
    /\ spc = "loop"
    /\ pos > Len(source)
    /\ out' = Append(out, <<"Juzs updated", counts.updated, counts.skipped>>)
    /\ conn' = [conn EXCEPT !.state = "closed"]
    /\ spc' = "done"
    /\ UNCHANGED <<script, files, db, source, pos, counts>>
    /\ PipelineIdle

----------------------------------------------------------------------------
(* migrations_drop_audio_segments.py *)

\* drop_audio_segments returns when the target file is absent
DropNotFound ==
    /\ script = "drop_audio_segments"
    /\ NotFound(script)

\* column_exists(conn, 'Ayats', 'audio_segments')
column_exists(store, table, column) == column \in store.columns[table]

\* connect, PRAGMA foreign_keys=OFF, commit
DropOpen ==
    /\ script = "drop_audio_segments"
    /\ spc = "start"
    /\ FirstMissing(script) = None
    /\ conn' = [Connected EXCEPT !.foreign_keys = FALSE]
    /\ spc' = "opened"
    /\ UNCHANGED <<script, files, db, source, pos, counts, out>>
    /\ PipelineIdle

\* finally: PRAGMA foreign_keys=ON, commit, close
Finally(c) == [c EXCEPT !.foreign_keys = TRUE, !.state = "closed"]

\* The column is absent: print, return through the finally block
DropNothingToDo ==
    /\ script = "drop_audio_segments"
    /\ spc = "opened"
    /\ ~column_exists(db, "Ayats", "audio_segments")
    /\ out' = Append(out, <<"Column audio_segments does not exist; nothing to do.">>)
    /\ conn' = Finally(conn)
    /\ spc' = "done"
    /\ UNCHANGED <<script, files, db, source, pos, counts>>
    /\ PipelineIdle

\* ALTER TABLE Ayats DROP COLUMN audio_segments
DropColumn(row, column) == [c \in DOMAIN row \ {column} |-> row[c]]

\* The ALTER TABLE succeeds: commit, print, return through the finally
\* block
DropDirect ==
    /\ script = "drop_audio_segments"
    /\ spc = "opened"
    /\ column_exists(db, "Ayats", "audio_segments")
    /\ db' = [db EXCEPT
                !.ayats = [i \in 1..Len(@) |-> DropColumn(@[i], "audio_segments")],
                !.columns.Ayats = @ \ {"audio_segments"}]
    /\ out' = Append(out, <<"Dropped column audio_segments via ALTER TABLE.">>)
    /\ conn' = Finally(conn)
    /\ spc' = "done"
    /\ UNCHANGED <<script, files, source, pos, counts>>
    /\ PipelineIdle

\* The ALTER TABLE raises DatabaseError (an SQLite before 3.35, or an index
\* on the column): print and go on to the rebuild
DropUnsupported ==
    /\ script = "drop_audio_segments"
    /\ spc = "opened"
    /\ column_exists(db, "Ayats", "audio_segments")
    /\ out' = Append(out, <<"ALTER TABLE DROP COLUMN not supported, rebuilding table...">>)
    /\ spc' = "rebuild"
    /\ UNCHANGED <<script, files, db, conn, source, pos, counts>>
    /\ PipelineIdle

\* INSERT INTO Ayats_new (nine columns) SELECT the nine columns FROM Ayats
CopyRow(row) ==
    [ayat_id |-> row.ayat_id, sura_id |-> row.sura_id,
     ayat_number |-> row.ayat_number, text_uthmani |-> row.text_uthmani,
     juz_id |-> row.juz_id, hezb_id |-> row.hezb_id, page_id |-> row.page_id,
     sajdah_number |-> row.sajdah_number, audio_url |-> row.audio_url]

\* A rebuild that leaves out the INSERT ... SELECT
RebuildWithoutCopy ==
    /\ script = "drop_audio_segments"
    /\ spc = "rebuild"
    /\ db' = [db EXCEPT !.ayats = <<>>, !.columns.Ayats = AyatsColumns]
    /\ out' = Append(out, <<"Rebuilt Ayats without audio_segments.">>)
    /\ conn' = Finally(conn)
    /\ spc' = "done"
    /\ UNCHANGED <<script, files, source, pos, counts>>
    /\ PipelineIdle

\* The fallback: CREATE TABLE Ayats_new, copy the rows, DROP TABLE Ayats,
\* rename, commit, print, the finally block
Rebuild ==
    /\ script = "drop_audio_segments"
    /\ spc = "rebuild"
    /\ db' = [db EXCEPT !.ayats = [i \in 1..Len(@) |-> CopyRow(@[i])],
                        !.columns.Ayats = AyatsColumns]
    /\ out' = Append(out, <<"Rebuilt Ayats without audio_segments.">>)
    /\ conn' = Finally(conn)
    /\ spc' = "done"
    /\ UNCHANGED <<script, files, source, pos, counts>>
    /\ PipelineIdle

----------------------------------------------------------------------------
(* update_pages_for_juz_hezb.py *)

\* main returns when the target file is absent
UpdatePagesNotFound ==
    /\ script = "update_pages_for_juz_hezb"
    /\ NotFound(script)

\* The smallest of a set of numbers, NULL for the empty set (SQL MIN)
MinOf(S) == IF S = {} THEN None ELSE CHOOSE x \in S : \A y \in S : x <= y

\* SELECT MIN(page_id) FROM Ayats GROUP BY juz_id / hezb_id, read for one
\* id: NULL when no verse row carries the id
MinPage(rows, column, id) ==
    MinOf({ rows[i].page_id : i \in { k \in 1..Len(rows) : rows[k][column] = id } })

\* COUNT(*) ... WHERE <column> IS NOT NULL
Filled(info, column) == Cardinality({ k \in DOMAIN info : info[k][column] # None })

\* The target exists: connect, ensure_columns, update_juz_pages,
\* update_hezb_pages, close, the totals
UpdatePages ==
    /\ script = "update_pages_for_juz_hezb"
    /\ spc = "start"
    /\ FirstMissing(script) = None
    /\ db' = [db EXCEPT
                !.columns.Juzs = @ \cup {"page_number"},
                !.columns.Hezbs = @ \cup {"page_number"},
                !.juzs = [j \in DOMAIN @ |->
                            [@[j] EXCEPT !.page_number =
                                           MinPage(db.ayats, "juz_id", j)]],
                !.hezbs = [h \in DOMAIN @ |->
                             [@[h] EXCEPT !.page_number =
                                            MinPage(db.ayats, "hezb_id", h)]]]
    /\ counts' = [juz_filled |-> Filled(db'.juzs, "page_number"),
                  hezb_filled |-> Filled(db'.hezbs, "page_number")]
    /\ out' = out \o << <<"Updated Juzs page_number", counts'.juz_filled>>,
                        <<"Updated Hezbs page_number", counts'.hezb_filled>> >>
    /\ conn' = [Connected EXCEPT !.foreign_keys = TRUE, !.state = "closed"]
    /\ spc' = "done"
    /\ UNCHANGED <<script, files, source, pos>>
    /\ PipelineIdle

----------------------------------------------------------------------------
(* update_suras_page_line.py *)

\* main returns when the target file is absent
UpdateSurasNotFound ==
    /\ script = "update_suras_page_line"
    /\ NotFound(script)

\* SQL COALESCE of two values
Coalesce(x, y) == IF x # None THEN x ELSE y

\* Pages.page_number of a page_id, NULL without such a row (LEFT JOIN)
PageNumber(rows, page_id) ==
    LET hit == { r \in rows : r.table = "Pages" /\ r.id = page_id }
    IN IF hit = {} THEN None ELSE (CHOOSE r \in hit : TRUE).number

\* The 'resolved' row of a chapter: its line of lowest page_id and, on that
\* page, lowest line_number; NULLs when Lines has no row of the chapter
FromLines(store, sura_id) ==
    LET own == { i \in 1..Len(store.lines) : store.lines[i].sura_id = sura_id }
        min_page == MinOf({ store.lines[i].page_id : i \in own })
        min_line == MinOf({ store.lines[i].line_number :
                              i \in { k \in own : store.lines[k].page_id = min_page } })
    IN IF own = {} THEN NoSuraInfo
       ELSE [page_number |-> Coalesce(PageNumber(store.refs, min_page), min_page),
             line_number |-> min_line]

\* The 'derived' row of a chapter: from the words of its verse number 1,
\* the page of the verse row standing in for a missing word page; NULLs
\* when the chapter has no verse number 1
FromFirstAyah(store, sura_id) ==
    LET first_ayats == { i \in 1..Len(store.ayats) :
                           /\ store.ayats[i].sura_id = sura_id
                           /\ store.ayats[i].ayat_number = 1 }
        fa == store.ayats[MinOf(first_ayats)]
        own == { i \in 1..Len(store.words) : store.words[i].ayat_id = fa.ayat_id }
        w_page == MinOf({ store.words[i].page_number : i \in own } \ {None})
        w_line == MinOf({ store.words[i].line_number : i \in own } \ {None})
    IN IF first_ayats = {} THEN NoSuraInfo
       ELSE [page_number |-> Coalesce(w_page, PageNumber(store.refs, fa.page_id)),
             line_number |-> w_line]

\* The target exists: connect, ensure_columns, update_suras_page_line (from
\* Lines when the table exists, else from the first verses), close, the
\* totals
UpdateSuras ==
    /\ script = "update_suras_page_line"
    /\ spc = "start"
    /\ FirstMissing(script) = None
    /\ db' = [db EXCEPT
                !.columns.Suras = @ \cup {"page_number", "line_number"},
                !.suras = [s \in DOMAIN @ |->
                             IF "Lines" \in db.tables THEN FromLines(db, s)
                             ELSE FromFirstAyah(db, s)]]
    /\ counts' = [pages |-> Filled(db'.suras, "page_number"),
                  lines |-> Filled(db'.suras, "line_number")]
    /\ out' = out \o << <<"Updated Suras page_number", counts'.pages>>,
                        <<"Updated Suras line_number", counts'.lines>> >>
    /\ conn' = [Connected EXCEPT !.foreign_keys = TRUE, !.state = "closed"]
    /\ spc' = "done"
    /\ UNCHANGED <<script, files, source, pos>>
    /\ PipelineIdle

NextScripts ==
    \/ ImportLinesNotFound
    \/ ImportLinesReset
    \/ ImportLinesLoad
    \/ ImportJuzsNotFound
    \/ ImportJuzsOpen
    \/ ImportJuzsRow
    \/ ImportJuzsFinish
    \/ DropNotFound
    \/ DropOpen
    \/ DropNothingToDo
    \/ DropDirect
    \/ DropUnsupported
    \/ Rebuild
    \/ UpdatePagesNotFound
    \/ UpdatePages
    \/ UpdateSurasNotFound
    \/ UpdateSuras

\* A run of one enrichment or migration script
SpecScripts == InitScripts /\ [][NextScripts]_vars

\* The pipelines started on a populated store
SpecRerun == InitRerun /\ [][Next]_vars

----------------------------------------------------------------------------
(* Vocabulary of the properties *)

\* Canonical order: chapter ascending, then verse number ascending
Precedes(k1, k2) == k1[1] < k2[1] \/ (k1[1] = k2[1] /\ k1[2] < k2[2])

\* Every (chapter_id, verse_number) the chapter list declares
DeclaredKeys ==
    { <<suras[i].id, n>> : i \in 1..Len(suras), n \in 1..MaxKeys }
      \cap { k \in (1..NumSuras) \X (1..MaxKeys) :
               \E i \in 1..Len(suras) :
                  suras[i].id = k[1] /\ k[2] <= suras[i].verses_count }

Enumerated ==
    pc \in {"pool", "submitting", "fetching", "retry", "load", "done"}

\* Keys of the entries of errors
ErrorKeys == { errors[i][1] : i \in 1..Len(errors) }

\* The keys of results in the order the insert loop visits them
IsPresent(k) == k \in DOMAIN results
PresentKeys == SelectSeq(InsertOrder(pipeline, suras), IsPresent)

\* Keys whose pool fetch and retry fetch both raised
FailedTwice ==
    { k \in DOMAIN fetch_log :
        Len(fetch_log[k]) = 2 /\ ~fetch_log[k][1].ok /\ ~fetch_log[k][2].ok }

----------------------------------------------------------------------------
(* C1 *)

\* C1 (as claimed): in both pipelines the enumerated work-item list holds
\* every declared (chapter_id, verse_number) exactly once and nothing else,
\* ordered by chapter_id ascending and then verse_number ascending.
C1_KeysCanonical ==
    Enumerated =>
        /\ SeqToSet(all_ayah_keys) = DeclaredKeys
        /\ \A i, j \in 1..Len(all_ayah_keys) :
              i < j => Precedes(all_ayah_keys[i], all_ayah_keys[j])

----------------------------------------------------------------------------
(* C2 *)

\* (chapter, verse_number) a Verse row stores
RowKey(row) == <<row.sura_id, row.ayat_number>>

\* C2 (as claimed): once the loader has finished, of any two Verse rows the
\* one whose stored (chapter, verse_number) comes first in canonical order
\* has the smaller ayat_id.
C2_IdsFollowCanonicalOrder ==
    pc = "done" =>
        \A i, j \in 1..Len(ayats) :
            Precedes(RowKey(ayats[i]), RowKey(ayats[j]))
                => ayats[i].ayat_id < ayats[j].ayat_id

----------------------------------------------------------------------------
(* C3 *)

\* What the Verse row of key k stores as (chapter, verse_number)
StoredIdentity(k) ==
    IF pipeline = "v1" THEN k
    ELSE <<results[k].sura_id, results[k].ayat_number>>

\* C3: the Nth Verse row inserted has ayat_id N; after the load the rows
\* are those of the K keys of the result mapping, in the order the loader
\* visits them, with IDs 1..K: a missing key moves the IDs of all later
\* verses down by one.
C3_IdsContiguous ==
    /\ \A n \in 1..Len(ayats) : ayats[n].ayat_id = n
    /\ ayat_id = Len(ayats) + 1
    /\ pc = "done" =>
          /\ Len(ayats) = Cardinality(DOMAIN results)
          /\ \A n \in 1..Len(ayats) :
                RowKey(ayats[n]) = StoredIdentity(PresentKeys[n])

\* A finished load in which a missing key lies between two loaded keys
C3_Witness ==
    /\ pc = "done"
    /\ \E i, j, l \in 1..Len(InsertOrder(pipeline, suras)) :
          /\ i < j /\ j < l
          /\ InsertOrder(pipeline, suras)[i] \in DOMAIN results
          /\ InsertOrder(pipeline, suras)[j] \notin DOMAIN results
          /\ InsertOrder(pipeline, suras)[l] \in DOMAIN results

----------------------------------------------------------------------------
(* C4 *)

\* verses_count the chapter list declares for chapter c
DeclaredCount(c) == FirstSura(suras, c).verses_count

\* C4 (as claimed): after a completed run, for every chapter C the number
\* of Verse rows whose stored chapter id is C equals C's declared verse
\* count minus the number of keys (C, n) that failed both fetches.
C4_RowsPerChapter ==
    pc = "done" =>
        \A c \in 1..NumSuras :
            Cardinality({ i \in 1..Len(ayats) : ayats[i].sura_id = c })
              = DeclaredCount(c) - Cardinality({ k \in FailedTwice : k[1] = c })

----------------------------------------------------------------------------
(* C5 *)

RetryEnded == pc \in {"load", "done"}

\* C5: a key whose pool fetch returned is fetched exactly once in a run, a
\* key whose pool fetch raised is fetched exactly once more, by the retry
\* pass; while the retry pass runs no pool fetch is outstanding or
\* unconsumed, and the retry pass fetches one key per step in list order.
C5_FetchCounts ==
    /\ \A k \in DOMAIN fetch_log :
          /\ Len(fetch_log[k]) <= 2
          /\ Len(fetch_log[k]) = 2 => ~fetch_log[k][1].ok
          /\ RetryEnded =>
                Len(fetch_log[k]) = (IF fetch_log[k][1].ok THEN 1 ELSE 2)
    /\ pc = "retry" =>
          /\ pending = {} /\ DOMAIN returned = {} /\ DOMAIN raised = {}
          /\ \A i \in 1..Len(errors) :
                Len(fetch_log[errors[i][1]]) = (IF i < retry_pos THEN 2 ELSE 1)

\* A finished run with a key fetched once and a key fetched twice
C5_Witness ==
    /\ pc = "done"
    /\ \E k \in DOMAIN fetch_log : Len(fetch_log[k]) = 1
    /\ \E k \in DOMAIN fetch_log : Len(fetch_log[k]) = 2

----------------------------------------------------------------------------
(* C6 *)

\* C6: when the retry pass has ended a key is in the result mapping iff
\* its pool fetch or its one retry fetch returned; a key that failed both
\* is absent and was reported once with the cause of the retry; every key
\* of the failure list was retried, whatever the outcome of the keys before
\* it, and the run went on to the load (it did not end in the retry pass).
C6_RecoveryOutcome ==
    /\ RetryEnded =>
          \A k \in DOMAIN fetch_log :
              /\ k \in DOMAIN results
                    <=> fetch_log[k][Len(fetch_log[k])].ok
              /\ k \in ErrorKeys => Len(fetch_log[k]) = 2
              /\ k \in FailedTwice =>
                    /\ k \notin DOMAIN results
                    /\ Cardinality({ i \in 1..Len(printed) :
                          printed[i][1] = "final failure" /\ printed[i][2] = k }) = 1
                    /\ \E i \in 1..Len(printed) :
                          printed[i] = <<"final failure", k, fetch_log[k][2].value>>
    /\ pc = "crashed" => FailedTwice = {}

\* The retry pass has ended; a key that failed twice stands in the failure
\* list before a key the retry recovered
C6_Witness ==
    /\ pc = "load"
    /\ \E i, j \in 1..Len(errors) :
          /\ i < j
          /\ errors[i][1] \in FailedTwice
          /\ errors[j][1] \in DOMAIN results

----------------------------------------------------------------------------
(* C7 *)

\* The state in which the with-block of the pool has just ended
PoolJustEnded ==
    \/ pc = "retry" /\ retry_pos = 1
    \/ pc = "load" /\ load_pos = 1 /\ errors = <<>>

\* C7: when the parallel fetch phase ends every dispatched key is in
\* exactly one aggregate: in the result mapping, with the payload its task
\* returned, when the task returned, and once in the failure list, with the
\* cause, when the task raised; the completion counter equals the number
\* of work items.
C7_AggregatesPartition ==
    PoolJustEnded =>
        /\ completed = Len(all_ayah_keys)
        /\ DOMAIN results \cup ErrorKeys = SeqToSet(all_ayah_keys)
        /\ DOMAIN results \cap ErrorKeys = {}
        /\ \A k \in SeqToSet(all_ayah_keys) :
              /\ Len(fetch_log[k]) = 1
              /\ IF fetch_log[k][1].ok
                 THEN k \in DOMAIN results /\ results[k] = fetch_log[k][1].value
                 ELSE /\ Cardinality({ i \in 1..Len(errors) : errors[i][1] = k }) = 1
                      /\ \E i \in 1..Len(errors) :
                            errors[i] = <<k, fetch_log[k][1].value>>

\* The pool has ended with a returned sibling and with failures collected
\* out of canonical order
C7_Witness ==
    /\ pc = "retry" /\ retry_pos = 1
    /\ DOMAIN results # {}
    /\ \E i, j \in 1..Len(errors) :
          i < j /\ Precedes(errors[j][1], errors[i][1])

----------------------------------------------------------------------------
(* C8 *)

AtMissingKey ==
    /\ pc = "load"
    /\ load_pos <= Len(InsertOrder(pipeline, suras))
    /\ LoadKey \notin DOMAIN results

SkipLines(k) ==
    { i \in 1..Len(printed) : printed[i][1] = "skip" /\ printed[i][2] = k }

\* C8: a step of the loader at a key the result mapping lacks inserts no
\* Verse row and no Word row, leaves the verse-ID and the word-ID counter
\* unchanged and reports the key; after the load every missing key has been
\* reported as skipped exactly once and no other key has, so the number of
\* skipped keys is the number of keys that failed both fetches.
C8_SkipLeavesStoreAndCounters ==
    /\ [][ AtMissingKey =>
             /\ ayats' = ayats /\ words' = words
             /\ ayat_id' = ayat_id /\ word_id' = word_id
             /\ printed' = Append(printed, <<"skip", LoadKey, "">>)
             /\ load_pos' = load_pos + 1 ]_vars
    /\ [](pc = "done" =>
             /\ \A k \in SeqToSet(all_ayah_keys) :
                   Cardinality(SkipLines(k)) = (IF k \in DOMAIN results THEN 0 ELSE 1)
             /\ Cardinality({ i \in 1..Len(printed) : printed[i][1] = "skip" })
                   = Cardinality(FailedTwice))

\* The loader has just skipped a key after it inserted a verse with words
C8_Witness ==
    /\ pc = "load"
    /\ load_pos > 1
    /\ InsertOrder(pipeline, suras)[load_pos - 1] \notin DOMAIN results
    /\ Len(ayats) >= 1
    /\ Len(words) >= 1

----------------------------------------------------------------------------
(* C9 *)

\* The Words rows of the verse with ayat_id a, in table order
VerseWords(a) ==
    LET OfVerse(r) == r.ayat_id = a IN SelectSeq(words, OfVerse)

WordNumbers(a) == [j \in 1..Len(VerseWords(a)) |-> VerseWords(a)[j].word_number]

\* C9: for every loaded Verse the word_number values of its Word rows are
\* pairwise distinct and are exactly 1..k for its k words, whatever fetch
\* failures occurred for other verses.
C9_PositionsOneToK ==
    \A n \in 1..Len(ayats) :
        /\ \A x, y \in 1..Len(WordNumbers(n)) :
              x # y => WordNumbers(n)[x] # WordNumbers(n)[y]
        /\ SeqToSet(WordNumbers(n)) = 1..Len(WordNumbers(n))

\* What the loader does guarantee: the Word rows of a loaded Verse are one
\* per word of its payload and carry, in order, the 'position' values the
\* payload gives; they are 1..k and pairwise distinct whenever the payload
\* numbers its words 1..k.
PositionsFromPayload ==
    \A n \in 1..Len(ayats) :
        /\ WordNumbers(n) = results[PresentKeys[n]].words
        /\ results[PresentKeys[n]].words
              = [j \in 1..Len(results[PresentKeys[n]].words) |-> j]
             => /\ SeqToSet(WordNumbers(n)) = 1..Len(WordNumbers(n))
                /\ \A x, y \in 1..Len(WordNumbers(n)) :
                      x # y => WordNumbers(n)[x] # WordNumbers(n)[y]

\* A verse with several words numbered 1..k was loaded in a run that
\* skipped a key that failed both fetches
PositionsFromPayloadReached ==
    /\ Cardinality(FailedTwice) >= 1
    /\ \E i \in 1..Len(printed) : printed[i][1] = "skip"
    /\ \E n \in 1..Len(ayats) :
          /\ Len(WordNumbers(n)) >= 2
          /\ WordNumbers(n) = [j \in 1..Len(WordNumbers(n)) |-> j]

----------------------------------------------------------------------------
(* C10 *)

\* Number of words in the payloads of the first n loaded keys
RECURSIVE WordsOfFirst(_)
WordsOfFirst(n) ==
    IF n = 0 THEN 0
    ELSE WordsOfFirst(n - 1) + Len(results[PresentKeys[n]].words)

WordIdsDense ==
    /\ Len(words) = WordsOfFirst(Len(ayats))
    /\ \A i \in 1..Len(words) : words[i].word_id = i

WordsReferenceVerses ==
    \A i \in 1..Len(words) :
        \E n \in 1..Len(ayats) : ayats[n].ayat_id = words[i].ayat_id

WordIdsFollowVerseIds ==
    \A i, j \in 1..Len(words) :
        words[i].ayat_id < words[j].ayat_id => words[i].word_id < words[j].word_id

\* C10: after the load Word IDs are exactly 1..M, M the total
\* number of words of the loaded verses; every Word row references a Verse
\* row of this run; words of a verse with a smaller ayat_id have smaller
\* word_ids; and within one verse word_id increases with word position.
C10_WordIdsByPosition ==
    pc = "done" =>
        /\ WordIdsDense
        /\ WordsReferenceVerses
        /\ WordIdsFollowVerseIds
        /\ \A i, j \in 1..Len(words) :
              (words[i].ayat_id = words[j].ayat_id
                 /\ words[i].word_number < words[j].word_number)
                => words[i].word_id < words[j].word_id

\* What the loader does guarantee: dense Word IDs, references to Verse
\* rows of the run, the order across verses, and within one verse word_id
\* increasing in the order in which the payload lists the words: the j-th
\* word of the payload of the n-th loaded verse has word_id
\* (words of the verses loaded before) + j and that word's position.
WordIdsByPayloadOrder ==
    pc = "done" =>
        /\ WordIdsDense
        /\ WordsReferenceVerses
        /\ WordIdsFollowVerseIds
        /\ \A n \in 1..Len(ayats) :
              \A j \in 1..Len(results[PresentKeys[n]].words) :
                 words[WordsOfFirst(n - 1) + j]
                    = [word_id     |-> WordsOfFirst(n - 1) + j,
                       ayat_id     |-> n,
                       word_number |-> results[PresentKeys[n]].words[j]]

\* A finished load with words in two verses and a skipped key
WordIdsByPayloadOrderReached ==
    /\ pc = "done"
    /\ \E i \in 1..Len(printed) : printed[i][1] = "skip"
    /\ \E i, j \in 1..Len(words) :
          /\ words[i].ayat_id < words[j].ayat_id
          /\ \E l \in 1..Len(words) :
                l # j /\ words[l].ayat_id = words[j].ayat_id

----------------------------------------------------------------------------
(* C11 *)

\* C11: schema initialization run on an initialized and populated store
\* leaves every existing row of every table unchanged, Verse and Word rows
\* included, on the connection and in the committed file; applying it
\* twice gives the same tables as applying it once.
C11_SchemaInitKeepsRows ==
    [][ pc = "schema" =>
          /\ ayats' = ayats
          /\ words' = words
          /\ refs \subseteq refs'
          /\ disk'.ayats = disk.ayats
          /\ disk'.words = disk.words
          /\ disk.refs \subseteq disk'.refs
          /\ SchemaInitView(pipeline, Store(ayats', words', refs'))
                = Store(ayats', words', refs') ]_vars

----------------------------------------------------------------------------
(* C12 *)

\* C12: at every point of a run before its final commit, which is where a
\* crash can strike, the committed Verse and Word rows are those the store
\* held when the run started: none of this run's rows is committed and no
\* earlier row is lost.
C12_CrashLeavesStore ==
    pc # "done" =>
        \E store \in PriorStores :
            /\ disk.ayats = store.ayats
            /\ disk.words = store.words

----------------------------------------------------------------------------
(* C13 *)

\* Position of a phase in the run
PhaseRank(p) ==
    CASE p = "schema"    -> 0
      [] p = "chapters"  -> 1
      [] p = "enumerate" -> 2
      [] p = "pool"      -> 3
      [] p = "submitting" -> 4
      [] p = "fetching"  -> 5
      [] p = "retry"     -> 6
      [] p = "load"      -> 7
      [] p = "done"      -> 8
      [] p = "crashed"   -> 9

PoolDrained ==
    /\ pending = {}
    /\ DOMAIN returned = {}
    /\ DOMAIN raised = {}
    /\ completed = Len(all_ayah_keys)

\* C13: the phases run in the order schema initialization, key
\* enumeration, parallel fetch with aggregation, recovery, load and never
\* go back: nothing is enumerated or fetched during schema initialization,
\* fetches are dispatched for the enumerated keys only, no recovery fetch
\* is issued while a pool fetch is outstanding, and no Verse or Word row is
\* inserted before every pool fetch has completed and the recovery pass
\* has ended.
C13_PhasesInOrder ==
    /\ [][PhaseRank(pc') >= PhaseRank(pc)]_vars
    /\ [](/\ pc = "schema" =>
               /\ suras = <<>> /\ all_ayah_keys = <<>>
               /\ DOMAIN fetch_log = {} /\ ayats = <<>> /\ words = <<>>
          /\ DOMAIN fetch_log # {} =>
               /\ DOMAIN fetch_log = SeqToSet(all_ayah_keys)
               /\ PhaseRank(pc) >= 4
          /\ (pc = "retry" \/ retry_pos > 1
                \/ \E k \in DOMAIN fetch_log : Len(fetch_log[k]) = 2)
               => PoolDrained
          /\ (ayats # <<>> \/ words # <<>> \/ load_pos > 1) =>
               /\ PoolDrained
               /\ retry_pos > Len(errors)
               /\ PhaseRank(pc) >= 7)

\* The loader has inserted rows in a run whose recovery pass fetched a key
C13_Witness ==
    /\ pc = "load"
    /\ retry_pos > 1
    /\ ayats # <<>>
    /\ words # <<>>

----------------------------------------------------------------------------
(* C14 *)

\* Keys the workers are done with and the consumer loop has not seen
Unconsumed == DOMAIN returned \cup DOMAIN raised

\* C14: in the parallel fetch phase a step of a fetch task writes neither
\* the result mapping, the failure list, the completion counter nor the
\* database, and these change only in an iteration of the consumer loop;
\* every session is used only by the thread that created it; so in every
\* interleaving each submitted key is in exactly one place (still to run
\* or running, done and unconsumed, in results, in errors) and the
\* counter equals the number of entries of results and errors.
C14_TasksShareNothing ==
    /\ [][ /\ (running' # running) =>
                /\ results' = results /\ errors' = errors
                /\ completed' = completed
                /\ ayats' = ayats /\ words' = words
                /\ refs' = refs /\ disk' = disk
           /\ (results' # results \/ errors' # errors
                  \/ completed' # completed) =>
                /\ completed' = completed + 1
                /\ running' = running /\ tls' = tls
                /\ session_log' = session_log ]_vars
    /\ [](/\ \A u \in session_log : u[1].creator = u[2]
          /\ \A t \in DOMAIN tls : tls[t] # NoSession => tls[t].creator = t
          /\ pc \in {"submitting", "fetching", "retry", "load"} =>
               /\ \A i \in 1..Len(all_ayah_keys) :
                     LET k == all_ayah_keys[i] IN
                     Cardinality({ place \in {"pending", "unconsumed",
                                               "results", "errors"} :
                         CASE place = "pending"    -> k \in pending
                           [] place = "unconsumed" -> k \in Unconsumed
                           [] place = "results"    -> k \in DOMAIN results
                           [] place = "errors"     -> k \in ErrorKeys })
                        = IF i < submit_pos THEN 1 ELSE 0
               /\ Cardinality(ErrorKeys) = Len(errors)
               /\ completed = Cardinality(DOMAIN results) + Len(errors))

\* One worker thread has run two tasks on its session, the other thread
\* has run a task on its own session, and the consumer loop has filed a
\* result and an error
C14_Witness ==
    /\ \E t, u \in Threads :
          /\ t # u
          /\ tls[t] # NoSession /\ tls[u] # NoSession
          /\ Cardinality({ e \in session_log : e[2] = t }) >= 2
    /\ DOMAIN results # {}
    /\ errors # <<>>

----------------------------------------------------------------------------
(* C15 *)

\* C15: for every setting of QURAN_MAX_WORKERS (unset, a non-digit string,
\* any string of digits) the pool is created and its fetches dispatched,
\* and the run is in the recovery or load phase only with every work item
\* completed and counted.
C15_PoolForEverySetting ==
    /\ [][pc = "pool" => PoolRunning']_vars
    /\ [](pc \in {"retry", "load", "done"} =>
             /\ pending = {}
             /\ completed = Len(all_ayah_keys))

----------------------------------------------------------------------------
(* The scripts and their database files *)

\* A script is about to test for its files and one of them is absent
RequiredFileAbsent ==
    /\ spc = "start"
    /\ \E i \in 1..Len(RequiredFiles(script)) :
           RequiredFiles(script)[i] \notin files

\* C16: when a database file a script requires is absent (the source of
\* import_juzs or import_lines, or the target of any of the scripts), the
\* script's only step prints a "not found" line naming an absent file and
\* returns: no connection is made, no file is created and the target store
\* is left as it is, so import_lines without its source neither deletes
\* nor drops Lines.
C16_MissingFileLeavesTarget ==
    [][ RequiredFileAbsent =>
          /\ spc' = "done"
          /\ Len(out') = Len(out) + 1
          /\ out'[Len(out')][2] \notin files
          /\ conn' = NotConnected
          /\ files' = files
          /\ db' = db ]_vars

\* import_lines has returned in a directory that holds the target, with a
\* Lines table, but not the source
C16_Witness ==
    /\ script = "import_lines"
    /\ spc = "done"
    /\ SOURCE_DB(script) \notin files
    /\ TARGET_DB \in files
    /\ "Lines" \in db.tables
    /\ db.lines = PriorLines
    /\ conn = NotConnected
    /\ out = << <<"Source DB not found", SOURCE_DB(script)>> >>

\* Source rows of import_lines whose page number exists in Pages and whose
\* chapter number exists in Suras
ValidSourceRows ==
    { i \in 1..Len(source) :
        /\ \E r \in db.refs : r.table = "Pages" /\ r.number = source[i].page_number
        /\ \E r \in db.refs : r.table = "Suras" /\ r.id = source[i].surah_number }

\* Lines row k holds the (page, line number) of source row i
LineOf(k, i) ==
    /\ \E r \in db.refs : /\ r.table = "Pages"
                           /\ r.number = source[i].page_number
                           /\ r.id = db.lines[k].page_id
    /\ db.lines[k].line_number = source[i].line_number

\* Lines holds one row for each distinct (page, line number) of the valid
\* source rows and no other row, and every other source row was counted
LinesAsImported ==
    /\ \A i \in ValidSourceRows :
          Cardinality({ k \in 1..Len(db.lines) : LineOf(k, i) }) = 1
    /\ \A k \in 1..Len(db.lines) :
          \E i \in ValidSourceRows :
              LineOf(k, i) /\ db.lines[k].sura_id = source[i].surah_number
    /\ counts.missing_page + counts.missing_sura
         = Len(source) - Cardinality(ValidSourceRows)

\* C17: import_lines, started with both files present on a target store
\* with or without a Lines table, does not end in an error, and when it
\* has returned Lines holds exactly one row for each distinct (page, line
\* number) among the source rows whose page exists in Pages and whose
\* chapter exists in Suras, every other source row having been counted as
\* skipped.
C17_LinesImported ==
    (script = "import_lines" /\ SOURCE_DB(script) \in files /\ TARGET_DB \in files)
        => /\ spc # "crashed"
           /\ spc = "done" => LinesAsImported

\* The same on the stores that have a Lines table when import_lines starts
LinesImportedOverExisting ==
    (/\ script = "import_lines"
     /\ SOURCE_DB(script) \in files
     /\ TARGET_DB \in files
     /\ "Lines" \in db.tables)
        => /\ spc # "crashed"
           /\ spc = "done" => LinesAsImported

\* import_lines has replaced the row of an earlier import by the one row of
\* a (page, line number) that MaxRows valid source rows share
LinesImportedOverExistingReached ==
    /\ script = "import_lines"
    /\ spc = "done"
    /\ "Lines" \in db.tables
    /\ Len(source) = MaxRows
    /\ Len(db.lines) = 1
    /\ db.lines[1].line_number # PriorLines[1].line_number
    /\ Cardinality(ValidSourceRows) = MaxRows

\* Verse rows a verse key text names
VersesNamed(key) ==
    { i \in 1..Len(db.ayats) :
        key = KeyText(db.ayats[i].sura_id, db.ayats[i].ayat_number) }

\* import_juzs is about to process the source row at pos
AtJuzRow == script = "import_juzs" /\ spc = "loop" /\ pos <= Len(source)

\* C18: import_juzs handles each source row in one round and goes on to
\* the next.  If the row's first and last verse key both name a verse row,
\* the Juzs row of that juz_number gets the row's verse count and the two
\* ayat_ids, no other Juzs row changes and updated grows by one; otherwise
\* no Juzs row changes and skipped grows by one.  When the script has
\* returned, updated + skipped is the number of source rows, and updated is
\* 0 if Ayats was empty.
C18_JuzsRowByRow ==
    /\ [][ AtJuzRow =>
             LET row == source[pos]
                 first == VersesNamed(row.first_verse_key)
                 last == VersesNamed(row.last_verse_key)
             IN /\ pos' = pos + 1
                /\ spc' = "loop"
                /\ IF first # {} /\ last # {}
                   THEN /\ \A j \in DOMAIN db.juzs :
                             IF j = row.juz_number
                             THEN /\ db'.juzs[j].verses_count = row.verses_count
                                  /\ \E i \in first :
                                        db'.juzs[j].first_ayat_id = db.ayats[i].ayat_id
                                  /\ \E i \in last :
                                        db'.juzs[j].last_ayat_id = db.ayats[i].ayat_id
                             ELSE db'.juzs[j] = db.juzs[j]
                        /\ counts'.updated = counts.updated + 1
                        /\ counts'.skipped = counts.skipped
                   ELSE /\ db'.juzs = db.juzs
                        /\ counts'.updated = counts.updated
                        /\ counts'.skipped = counts.skipped + 1 ]_vars
    /\ [](script = "import_juzs" /\ spc = "done" /\ conn.state = "closed"
            => /\ counts.updated + counts.skipped = Len(source)
               /\ db.ayats = <<>> => counts.updated = 0)

\* import_juzs has returned after updating the Juzs row of one source row
\* and skipping another source row
C18_Witness ==
    /\ script = "import_juzs"
    /\ spc = "done"
    /\ conn.state = "closed"
    /\ counts.updated >= 1
    /\ counts.skipped >= 1
    /\ \E i \in 1..Len(source) :
          /\ db.juzs[source[i].juz_number].verses_count = source[i].verses_count
          /\ db.juzs[source[i].juz_number].first_ayat_id = 1
          /\ db.juzs[source[i].juz_number].last_ayat_id = NumSuras

\* import_juzs has returned from a store without verse rows: every source
\* row was skipped and the Juzs rows hold what they held
JuzsSkippedWithoutVerses ==
    /\ script = "import_juzs"
    /\ spc = "done"
    /\ conn.state = "closed"
    /\ db.ayats = <<>>
    /\ Len(source) = NumJuzs
    /\ counts = [updated |-> 0, skipped |-> NumJuzs]
    /\ \A j \in DOMAIN db.juzs : db.juzs[j].verses_count = j

\* C19: drop_audio_segments changes the store only in the step in which
\* it returns.  On a store whose Ayats has the audio_segments column that
\* step, be it the direct ALTER TABLE or the fallback rebuild, leaves
\* Ayats without the column and with the same rows in the same order, equal
\* in all nine remaining columns, and leaves every other table alone; on a
\* store without the column it changes nothing.  Whenever the script has
\* returned after connecting, foreign-key enforcement is on.
C19_SegmentsDropped ==
    /\ [][ script = "drop_audio_segments" =>
             IF spc' = "done" /\ column_exists(db, "Ayats", "audio_segments")
             THEN /\ db'.columns.Ayats = AyatsColumns
                  /\ Len(db'.ayats) = Len(db.ayats)
                  /\ \A i \in 1..Len(db.ayats) :
                        /\ DOMAIN db'.ayats[i] = AyatsColumns
                        /\ \A c \in AyatsColumns :
                              db'.ayats[i][c] = db.ayats[i][c]
                  /\ [db' EXCEPT !.ayats = db.ayats,
                                  !.columns.Ayats = db.columns.Ayats] = db
             ELSE db' = db ]_vars
    /\ [](script = "drop_audio_segments" /\ spc = "done" /\ conn.state # "none"
            => /\ conn.foreign_keys
               /\ ~column_exists(db, "Ayats", "audio_segments"))

\* The fallback rebuild has run on a store with verse rows
C19_Witness ==
    /\ script = "drop_audio_segments"
    /\ spc = "done"
    /\ out[Len(out)] = <<"Rebuilt Ayats without audio_segments.">>
    /\ db.ayats = [i \in 1..NumSuras |-> VerseRow(i)]
    /\ conn = [state |-> "closed", foreign_keys |-> TRUE]

\* The direct column drop has run on a store with verse rows
SegmentsDroppedDirectly ==
    /\ script = "drop_audio_segments"
    /\ spc = "done"
    /\ out = << <<"Dropped column audio_segments via ALTER TABLE.">> >>
    /\ db.ayats = [i \in 1..NumSuras |-> VerseRow(i)]
    /\ conn = [state |-> "closed", foreign_keys |-> TRUE]

----------------------------------------------------------------------------
(* The two pipelines compared *)

\* The keys that have a payload, in the order the insert loop of pipeline
\* pl visits them for the chapter list of this run
VisitedBy(pl) == SelectSeq(InsertOrder(pl, suras), IsPresent)

\* The place of key k in that order: the ayat_id pl's loop gives it
AyatIdBy(pl, k) ==
    CHOOSE i \in 1..Len(VisitedBy(pl)) : VisitedBy(pl)[i] = k

\* Number of words of the first n keys of that order
RECURSIVE WordsOfVisited(_, _)
WordsOfVisited(pl, n) ==
    IF n = 0 THEN 0
    ELSE WordsOfVisited(pl, n - 1) + Len(results[VisitedBy(pl)[n]].words)

\* The word_ids pl's loop gives to the words of key k, in word order
WordIdsBy(pl, k) ==
    [j \in 1..Len(results[k].words) |->
       WordsOfVisited(pl, AyatIdBy(pl, k) - 1) + j]

\* The word_ids of the Words rows of verse row a of this run, in row order
StoredWordIds(a) == [j \in 1..Len(VerseWords(a)) |-> VerseWords(a)[j].word_id]

OtherPipeline == IF pipeline = "v1" THEN "v2" ELSE "v1"

\* The ids this run stored for every key are those the other pipeline's
\* loop gives for the same chapter list, payload set and word counts
IdsAsInOtherPipeline ==
    \A i \in 1..Len(ayats) :
        LET k == VisitedBy(pipeline)[i]
        IN /\ ayats[i].ayat_id = AyatIdBy(OtherPipeline, k)
           /\ StoredWordIds(ayats[i].ayat_id) = WordIdsBy(OtherPipeline, k)

\* C20: for the chapter list the endpoint returned, in whatever order, and
\* the same fetch outcome and word count of every key, download.py and
\* download_v2.py give every key the same ayat_id and every word the same
\* word_id: a finished run has stored the ids the other pipeline would.
C20_SameIdsInBothPipelines ==
    pc = "done" => /\ Len(ayats) = Len(VisitedBy(pipeline))
                   /\ IdsAsInOtherPipeline

\* The same for chapter lists in ascending id order
SameIdsOnAscendingList ==
    (pc = "done" /\ \A i \in 1..Len(suras) : suras[i].id = i)
        => /\ Len(ayats) = Len(VisitedBy(pipeline))
           /\ IdsAsInOtherPipeline

\* A run on an ascending chapter list has stored MaxKeys verses with
\* their words
SameIdsOnAscendingListReached ==
    /\ pc = "done"
    /\ \A i \in 1..Len(suras) : suras[i].id = i
    /\ Len(ayats) = MaxKeys
    /\ Len(words) = MaxKeys * MaxWords

----------------------------------------------------------------------------
(* C21 *)

\* Chapter ids of the chapter list the run enumerated
EnumeratedChapters == { suras[i].id : i \in 1..Len(suras) }

\* Every Verse row stores the key it was fetched under (the i-th row is
\* that of the i-th key the loader found a payload for), no two rows store
\* the same (chapter id, verse number), and every stored chapter id is an
\* enumerated chapter
RowsStoreTheirKeys ==
    /\ \A i \in 1..Len(ayats) : RowKey(ayats[i]) = PresentKeys[i]
    /\ \A i, j \in 1..Len(ayats) :
          RowKey(ayats[i]) = RowKey(ayats[j]) => i = j
    /\ \A i \in 1..Len(ayats) : ayats[i].sura_id \in EnumeratedChapters

\* C21: in both pipelines and for every payload a fetch can return, every
\* Verse row the loader has written stores the chapter id and verse number
\* of the key it was fetched under; so no two Verse rows share a (chapter
\* id, verse number) and every row's chapter id is an enumerated chapter.
C21_RowsStoreTheirKeys ==
    pc \in {"load", "done"} => RowsStoreTheirKeys

\* The same for download.py alone
RowsStoreTheirKeysInV1 ==
    (pipeline = "v1" /\ pc \in {"load", "done"}) => RowsStoreTheirKeys

\* download.py has finished a run in which the payload of a stored verse
\* was fetched from a response that names another verse
RowsStoreTheirKeysInV1Reached ==
    /\ pipeline = "v1"
    /\ pc = "done"
    /\ Len(ayats) = MaxKeys
    /\ \E k \in DOMAIN results :
          \E resp \in Garbled(k) : results[k] = fetch_ayah(k, resp)[2]

====
